---------------------------- MODULE Spec2Model ----------------------------
(***************************************************************************)
(* Model of the AI video script generator: the command-line conversation   *)
(* router (src/main.py), the component generators and their response       *)
(* parsers (src/src/agents, src/hook_parser.py).                           *)
(*                                                                         *)
(* Python strings are TLA+ strings; TLC evaluates Len, \o and SubSeq on    *)
(* them, so the string operators below work character by character.        *)
(* The three emoji markers of src/hook_parser.py are written with ASCII    *)
(* stand-ins that occur nowhere else in the texts of the model:            *)
(*   MEMO "^" (U+1F4DD), CLAPPER "@" (U+1F3AC), STOPWATCH "~%" (U+23F1     *)
(*   U+FE0F, two code points), and BULLET "+" (U+2022).                    *)
(***************************************************************************)
EXTENDS Integers, Sequences, FiniteSets, TLC

VARIABLES
    state,             \* VideoScriptCLI.state, the VideoScriptState of the project
    db,                \* the project's rows in the database
    pc,                \* "prompt" at Prompt.ask, "exited" after exit, "fatal" after main's except
    handler,           \* the branch of interaction_loop that served the last turn
    response,          \* what the last turn told the user
    exported,          \* text written by the last export
    turn,              \* inputs read by interaction_loop so far
    user_input,        \* the raw input of the turn being resolved
    option_selected,   \* result of _parse_option_selection for user_input
    completion,        \* raw text last returned by the Text Completion Provider
    parsed,            \* list returned by the option parser last applied
    parser,            \* which parser produced `parsed`
    conversations,     \* ConversationManager.states of the web application
    requests           \* the requests the web server's threads are serving

cliVars == <<state, db, pc, handler, response, exported, turn>>
webVars == <<conversations, requests>>
vars == <<state, db, pc, handler, response, exported, turn,
          user_input, option_selected, completion, parsed, parser,
          conversations, requests>>

-----------------------------------------------------------------------------
(* Python str helpers *)

\* s[i-1], the empty string outside the text
At(s, i) == IF i >= 1 /\ i <= Len(s) THEN SubSeq(s, i, i) ELSE ""

StartsWithAt(s, p, i) ==
    /\ i >= 1
    /\ i + Len(p) - 1 <= Len(s)
    /\ SubSeq(s, i, i + Len(p) - 1) = p

\* str.startswith
StartsWith(s, p) == StartsWithAt(s, p, 1)

\* `p in s`
Contains(s, p) == \E i \in 1..(Len(s) + 1) : StartsWithAt(s, p, i)

\* index of the leftmost occurrence of p in s at or after `from`, 0 if none
Find(s, p, from) ==
    LET hits == {i \in from..(Len(s) + 1) : StartsWithAt(s, p, i)}
    IN  IF hits = {} THEN 0 ELSE CHOOSE i \in hits : \A j \in hits : i <= j

UpperChars == "ABCDEFGHIJKLMNOPQRSTUVWXYZ"
LowerChars == "abcdefghijklmnopqrstuvwxyz"
DigitChars == "0123456789"

IsUpper(c) == \E i \in 1..26 : At(UpperChars, i) = c
IsLower(c) == \E i \in 1..26 : At(LowerChars, i) = c
IsDigit(c) == \E i \in 1..10 : At(DigitChars, i) = c
\* \s of the re module, and the characters str.strip() removes
SpaceChars == {" ", "\n", "\t", "\r"}
IsSpace(c) == c \in SpaceChars
\* \w of the re module
IsWordChar(c) == IsUpper(c) \/ IsLower(c) \/ IsDigit(c) \/ c = "_"

\* int() of one decimal digit
DigitVal(c) == (CHOOSE i \in 1..10 : At(DigitChars, i) = c) - 1

LowerChar(c) ==
    IF IsUpper(c) THEN At(LowerChars, CHOOSE i \in 1..26 : At(UpperChars, i) = c)
    ELSE c

RECURSIVE Lower(_)
\* str.lower
Lower(s) == IF s = "" THEN "" ELSE LowerChar(At(s, 1)) \o Lower(SubSeq(s, 2, Len(s)))

UpperChar(c) ==
    IF IsLower(c) THEN At(UpperChars, CHOOSE i \in 1..26 : At(LowerChars, i) = c)
    ELSE c

RECURSIVE Upper(_)
\* str.upper
Upper(s) == IF s = "" THEN "" ELSE UpperChar(At(s, 1)) \o Upper(SubSeq(s, 2, Len(s)))

RECURSIVE LStripSet(_, _)
\* str.lstrip(chars)
LStripSet(s, chars) ==
    IF s # "" /\ At(s, 1) \in chars THEN LStripSet(SubSeq(s, 2, Len(s)), chars) ELSE s

RECURSIVE RStripSet(_, _)
\* str.rstrip(chars)
RStripSet(s, chars) ==
    IF s # "" /\ At(s, Len(s)) \in chars THEN RStripSet(SubSeq(s, 1, Len(s) - 1), chars) ELSE s

StripSet(s, chars) == RStripSet(LStripSet(s, chars), chars)

\* str.strip()
Strip(s) == StripSet(s, SpaceChars)

\* s[:n]
Take(s, n) == IF Len(s) <= n THEN s ELSE SubSeq(s, 1, n)

\* s[n:]
Drop(s, n) == IF Len(s) <= n THEN "" ELSE SubSeq(s, n + 1, Len(s))

RECURSIVE Replace(_, _, _)
\* str.replace(old, new), old non-empty: every occurrence, left to right
Replace(s, old, new) ==
    LET i == Find(s, old, 1)
    IN  IF i = 0 \/ s = "" THEN s
        ELSE SubSeq(s, 1, i - 1) \o new \o Replace(Drop(s, i + Len(old) - 1), old, new)

RECURSIVE Split(_, _)
\* str.split(sep), sep one character: always at least one piece
Split(s, sep) ==
    LET i == Find(s, sep, 1)
    IN  IF i = 0 \/ i > Len(s) THEN <<s>>
        ELSE <<SubSeq(s, 1, i - 1)>> \o Split(Drop(s, i), sep)

RECURSIVE JoinLines(_)
\* "\n".join(chunks)
JoinLines(chunks) ==
    IF Len(chunks) = 0 THEN ""
    ELSE IF Len(chunks) = 1 THEN chunks[1]
    ELSE chunks[1] \o "\n" \o JoinLines(Tail(chunks))

RECURSIVE Repeat(_, _)
\* s * n
Repeat(s, n) == IF n <= 0 THEN "" ELSE s \o Repeat(s, n - 1)

\* Python's None where the code only tests truthiness of an Optional[int]
None == 0

-----------------------------------------------------------------------------
(* VideoScriptCLI._parse_option_selection, src/main.py:568-625 *)

\* len(user_input) > 50, src/main.py:587
MaxSelectionLength == 50
\* len(input_lower) <= 20, src/main.py:614
MaxWordInputLength == 20

\* src/main.py:582-587: inputs that are never parsed as a selection
IsExcludedInput_NoLength(user, input_lower) ==
    \/ StartsWith(input_lower, "draft:")
    \/ StartsWith(input_lower, "draft ")
    \/ StartsWith(input_lower, "enhance")
    \/ StartsWith(input_lower, "research:")
    \/ StartsWith(input_lower, "example:")

IsExcludedInput(user, input_lower) ==
    \/ StartsWith(input_lower, "draft:")
    \/ StartsWith(input_lower, "draft ")
    \/ StartsWith(input_lower, "enhance")
    \/ StartsWith(input_lower, "research:")
    \/ StartsWith(input_lower, "example:")
    \/ Len(user) > MaxSelectionLength

\* re.search(lit + r'(\d)', s): the digit of the leftmost match, -1 if none
SearchDigitAfter(s, lit) ==
    LET hits == {i \in 1..Len(s) :
                    StartsWithAt(s, lit, i) /\ IsDigit(At(s, i + Len(lit)))}
    IN  IF hits = {} THEN -1
        ELSE LET i == CHOOSE i \in hits : \A j \in hits : i <= j
             IN  DigitVal(At(s, i + Len(lit)))

\* re.search(r'^(\d)$', s) on a stripped string
SearchWholeDigit(s) == IF Len(s) = 1 /\ IsDigit(s) THEN DigitVal(s) ELSE -1

\* src/main.py:591-602, in the order the loop tries them: the literal text
\* before the (\d) group; "^$" stands for the anchored pattern ^(\d)$
SelectionPatterns_NoHash ==
    << "choose option ", "option ", "use option ", "select option ",
       "go with option ", "let's use option ", "^$", "option number ", "number " >>

SelectionPatterns ==
    << "choose option ", "option ", "use option ", "select option ",
       "go with option ", "let's use option ", "^$", "option number ", "number ", "#" >>

PatternDigit(s, k) ==
    IF SelectionPatterns[k] = "^$" THEN SearchWholeDigit(s)
    ELSE SearchDigitAfter(s, SelectionPatterns[k])

\* src/main.py:604-609: the first pattern whose leftmost match is a digit 1..3
PatternSelection(s) ==
    LET ok == {k \in 1..Len(SelectionPatterns) :
                  PatternDigit(s, k) >= 1 /\ PatternDigit(s, k) <= 3}
    IN  IF ok = {} THEN None
        ELSE PatternDigit(s, CHOOSE k \in ok : \A j \in ok : k <= j)

\* re.search(r'\b' + w + r'\b', s)
HasWord(s, w) ==
    \E i \in 1..Len(s) :
        /\ StartsWithAt(s, w, i)
        /\ (i = 1 \/ ~IsWordChar(At(s, i - 1)))
        /\ (i + Len(w) - 1 = Len(s) \/ ~IsWordChar(At(s, i + Len(w))))

\* src/main.py:614-623
WordSelection(s) ==
    IF Len(s) > MaxWordInputLength THEN None
    ELSE IF HasWord(s, "first") \/ HasWord(s, "one") THEN 1
    ELSE IF HasWord(s, "second") \/ HasWord(s, "two") THEN 2
    ELSE IF HasWord(s, "third") \/ HasWord(s, "three") THEN 3
    ELSE None

_parse_option_selection(user) ==
    LET input_lower == Strip(Lower(user))
    IN  IF IsExcludedInput(user, input_lower) THEN None
        ELSE IF PatternSelection(input_lower) # None THEN PatternSelection(input_lower)
        ELSE WordSelection(input_lower)

-----------------------------------------------------------------------------
(* Python dict helpers: a dict is a function whose DOMAIN is its key set *)

EmptyDict == [k \in {} |-> ""]
\* d[k] = v
Put(d, k, v) == (k :> v) @@ d
\* d.get(k, default)
Get(d, k, default) == IF k \in DOMAIN d THEN d[k] ELSE default
\* seq[:n]
TakeSeq(seq, n) == IF Len(seq) <= n THEN seq ELSE SubSeq(seq, 1, n)

-----------------------------------------------------------------------------
(* HookSpecialistAgent._parse_hooks, src/src/agents/hook_specialist.py:338-417 *)

BULLET == "+"
QUOTE == "\""

\* lines 359-366: one field line inside a HOOK block
HookField(current_hook, line) ==
    IF StartsWith(line, "Type:")
    THEN Put(current_hook, "type", Strip(Replace(line, "Type:", "")))
    ELSE IF StartsWith(line, "Text:")
    THEN Put(current_hook, "text", StripSet(Strip(Replace(line, "Text:", "")), {QUOTE}))
    ELSE IF StartsWith(line, "Visual Note:") \/ StartsWith(line, "Visual:")
    THEN Put(current_hook, "visual",
             Strip(Replace(Replace(line, "Visual Note:", ""), "Visual:", "")))
    ELSE IF StartsWith(line, "Duration:")
    THEN Put(current_hook, "duration", Strip(Replace(line, "Duration:", "")))
    ELSE current_hook

RECURSIVE StructuredHooks(_, _, _, _, _)
\* lines 347-370: the structured pass over the lines, then the last block
StructuredHooks(lines, i, hooks, current_hook, in_hook) ==
    LET closed == IF "text" \in DOMAIN current_hook
                  THEN Append(hooks, current_hook) ELSE hooks
    IN  IF i > Len(lines) THEN closed
        ELSE LET line == Strip(lines[i])
             IN  IF StartsWith(line, "HOOK") /\ Contains(line, ":")
                 THEN StructuredHooks(lines, i + 1, closed, EmptyDict, TRUE)
                 ELSE IF in_hook
                 THEN StructuredHooks(lines, i + 1, hooks, HookField(current_hook, line), in_hook)
                 ELSE StructuredHooks(lines, i + 1, hooks, current_hook, in_hook)

\* lstrip('0123456789.-•* ')
ListMarkerChars == {"0", "1", "2", "3", "4", "5", "6", "7", "8", "9", ".", "-", BULLET, "*", " "}

RECURSIVE HookCandidates(_, _)
\* lines 380-387: numbered items and bullet points with more than 20 characters
HookCandidates(lines, i) ==
    IF i > Len(lines) THEN << >>
    ELSE LET line == Strip(lines[i])
             text == Strip(LStripSet(line, ListMarkerChars))
             listed == \/ StartsWith(line, "1.") \/ StartsWith(line, "2.")
                       \/ StartsWith(line, "3.") \/ StartsWith(line, "-")
                       \/ StartsWith(line, BULLET) \/ StartsWith(line, "*")
         IN  (IF listed /\ Len(text) > 20 THEN <<text>> ELSE << >>)
                 \o HookCandidates(lines, i + 1)

CandidateTypes == <<"Curiosity Gap", "Problem/Agitation", "Statistical Shock">>

\* lines 390-396
CandidateHook(i, text) ==
    [type |-> CandidateTypes[((i - 1) % 3) + 1],
     text |-> IF Len(text) > 200 THEN Take(text, 200) ELSE text,
     visual |-> "Engaging visuals related to the topic",
     duration |-> "5-8 seconds"]

RECURSIVE LongLines(_, _)
\* line 400: the stripped lines with more than 20 characters
LongLines(lines, i) ==
    IF i > Len(lines) THEN << >>
    ELSE (IF Len(Strip(lines[i])) > 20 THEN <<Strip(lines[i])>> ELSE << >>)
             \o LongLines(lines, i + 1)

FirstLineTypes == <<"Generated Hook", "Alternative Hook", "Creative Hook">>

\* lines 401-407
FirstLineHook(i, text) ==
    [type |-> FirstLineTypes[i], text |-> Take(text, 200),
     visual |-> "Standard opening visuals", duration |-> "5-8 seconds"]

\* lines 410-416
DefaultHook(hooks_response) ==
    [type |-> "Default",
     text |-> "Discover how "
                 \o (IF hooks_response # "" THEN Take(hooks_response, 100) ELSE "this topic")
                 \o " can transform your approach",
     visual |-> "Engaging opening sequence", duration |-> "5-8 seconds"]

_parse_hooks(hooks_response) ==
    LET lines == Split(hooks_response, "\n")
        structured == StructuredHooks(lines, 1, << >>, EmptyDict, FALSE)
        candidates == TakeSeq(HookCandidates(lines, 1), 3 - Len(structured))
        withCandidates ==
            IF Len(structured) < 3
            THEN structured \o [i \in 1..Len(candidates) |-> CandidateHook(i, candidates[i])]
            ELSE structured
        first_lines == TakeSeq(LongLines(lines, 1), 3)
        withFirstLines ==
            IF withCandidates = << >> /\ hooks_response # ""
            THEN [i \in 1..Len(first_lines) |-> FirstLineHook(i, first_lines[i])]
            ELSE withCandidates
        hooks == IF withFirstLines = << >> THEN <<DefaultHook(hooks_response)>>
                 ELSE withFirstLines
    IN  IF Len(structured) = 3 THEN structured
        ELSE TakeSeq(hooks, 3)

-----------------------------------------------------------------------------
(* CTAStrategistAgent._parse_ctas, src/src/agents/cta_strategist.py:473-503 *)

RECURSIVE StructuredCtas(_, _, _, _)
\* lines 478-489
StructuredCtas(lines, i, ctas, current_cta) ==
    LET closed == IF "primary_text" \in DOMAIN current_cta
                  THEN Append(ctas, current_cta) ELSE ctas
    IN  IF i > Len(lines) THEN closed
        ELSE LET line == Strip(lines[i])
             IN  IF StartsWith(line, "Type:")
                 THEN StructuredCtas(lines, i + 1, closed,
                          Put(EmptyDict, "type", Strip(Replace(line, "Type:", ""))))
                 ELSE IF StartsWith(line, "Primary Text:")
                 THEN StructuredCtas(lines, i + 1, ctas,
                          Put(current_cta, "primary_text",
                              StripSet(Strip(Replace(line, "Primary Text:", "")), {QUOTE})))
                 ELSE IF StartsWith(line, "Supporting Text:")
                 THEN StructuredCtas(lines, i + 1, ctas,
                          Put(current_cta, "supporting_text",
                              Strip(Replace(line, "Supporting Text:", ""))))
                 ELSE StructuredCtas(lines, i + 1, ctas, current_cta)

\* lines 492-500
FallbackCta(cta_response) ==
    [type |-> "Action",
     primary_text |-> Take(Split(cta_response, "\n")[1], 100),
     supporting_text |-> "Take action now",
     visual_elements |-> "Button or link",
     urgency_factor |-> "Limited time",
     platform_optimization |-> "Standard"]

_parse_ctas(cta_response) ==
    LET ctas == StructuredCtas(Split(cta_response, "\n"), 1, << >>, EmptyDict)
    IN  IF ctas = << >> /\ cta_response # "" THEN <<FallbackCta(cta_response)>>
        ELSE ctas

-----------------------------------------------------------------------------
(* parse_hooks_advanced and its helpers, src/hook_parser.py *)

MEMO == "^"
CLAPPER == "@"
STOPWATCH == "~%"

\* s[a-1:b-1], empty when the range is empty
Slice(s, a, b) == IF a >= b THEN "" ELSE SubSeq(s, a, b - 1)

\* the index after the longest run of \s starting at i
SkipSpaces(s, i) ==
    CHOOSE j \in i..(Len(s) + 1) :
        /\ \A k \in i..(j - 1) : IsSpace(At(s, k))
        /\ ~IsSpace(At(s, j))

\* the index after the longest run of \d starting at i
SkipDigits(s, i) ==
    CHOOSE j \in i..(Len(s) + 1) :
        /\ \A k \in i..(j - 1) : IsDigit(At(s, k))
        /\ ~IsDigit(At(s, j))

\* the index of the next "\n" at or after i, Len(s)+1 if there is none
LineEnd(s, i) ==
    CHOOSE j \in i..(Len(s) + 1) :
        /\ \A k \in i..(j - 1) : At(s, k) # "\n"
        /\ (j = Len(s) + 1 \/ At(s, j) = "\n")

\* Option\s+\d+: matched at i: the index of its colon, 0 when it does not match
OptionMarker(s, i) ==
    IF ~StartsWithAt(s, "Option", i) THEN 0
    ELSE LET a == i + 6
             b == SkipSpaces(s, a)
             c == SkipDigits(s, b)
         IN  IF b > a /\ c > b /\ At(s, c) = ":" THEN c ELSE 0

\* \s*([^\n]+) after the colon at c: whether it matches, and group 2
HeaderType(s, c) ==
    LET rest == Drop(s, c)
        body == LStripSet(rest, SpaceChars)
    IN  IF body # "" THEN <<TRUE, Slice(body, 1, LineEnd(body, 1))>>
        ELSE IF \E k \in 1..Len(rest) : At(rest, k) # "\n"
        THEN LET k == CHOOSE k \in 1..Len(rest) :
                          /\ At(rest, k) # "\n"
                          /\ \A j \in (k + 1)..Len(rest) : At(rest, j) = "\n"
             IN  <<TRUE, Slice(rest, k, LineEnd(rest, k))>>
        ELSE <<FALSE, "">>

RECURSIVE SplitOptions(_, _)
\* re.split(r'(?=Option\s+\d+:)', content): the pieces from index `from` on
SplitOptions(content, from) ==
    LET marks == {p \in (from + 1)..Len(content) : OptionMarker(content, p) > 0}
    IN  IF marks = {} THEN <<Slice(content, from, Len(content) + 1)>>
        ELSE LET p == CHOOSE p \in marks : \A q \in marks : p <= q
             IN  <<Slice(content, from, p)>> \o SplitOptions(content, p)

\* the script pattern of line 101, searched in one piece: whether it matches
\* and group 1 (the rest of the line that ends the match)
ScriptMatch(option) ==
    LET AfterLabel(p) == SkipSpaces(option, p + Len(MEMO)) + Len("Script:")
        Ends(st) == LET e == LineEnd(option, st)
                    IN  \/ e >= Len(option)
                        \/ StartsWithAt(option, CLAPPER, e + 1)
                        \/ StartsWithAt(option, STOPWATCH, e + 1)
        Starts(p) == {st \in AfterLabel(p)..SkipSpaces(option, AfterLabel(p)) : Ends(st)}
        memos == {p \in 1..Len(option) :
                     /\ StartsWithAt(option, MEMO, p)
                     /\ StartsWithAt(option, "Script:", SkipSpaces(option, p + Len(MEMO)))
                     /\ Starts(p) # {}}
    IN  IF memos = {} THEN <<FALSE, "">>
        ELSE LET p == CHOOSE p \in memos : \A q \in memos : p <= q
                 st == CHOOSE st \in Starts(p) : \A t \in Starts(p) : st >= t
             IN  <<TRUE, Slice(option, st, LineEnd(option, st))>>

\* lines 129-148
generate_fallback_hook(hook_type) ==
    LET t == Lower(hook_type)
    IN  IF Contains(t, "problem") \/ Contains(t, "agitation")
        THEN "Stop wasting hours on repetitive tasks that drain your energy and kill your productivity."
        ELSE IF Contains(t, "curiosity")
        THEN "There's a secret that top performers use to get 10x more done in half the time..."
        ELSE IF Contains(t, "statistical") \/ Contains(t, "shock")
        THEN "Studies show that 87% of people are doing this completely wrong. Are you one of them?"
        ELSE IF Contains(t, "question")
        THEN "What if you could transform your workflow in just 5 minutes a day?"
        ELSE IF Contains(t, "story")
        THEN "Six months ago, I was overwhelmed. Today, I run my business on autopilot. Here's how..."
        ELSE IF Contains(t, "benefit")
        THEN "Discover the simple technique that's helping thousands achieve their goals faster."
        ELSE "This one simple change transformed everything for me. Let me show you how."

RECURSIVE DigitsValue(_, _)
\* int() of the decimal digits s, read after the value acc
DigitsValue(s, acc) ==
    IF s = "" THEN acc ELSE DigitsValue(Drop(s, 1), 10 * acc + DigitVal(At(s, 1)))

\* the positions p where marker \s* label matches, with the text after the
\* label matching \s*([^\n]+)
FieldStarts(option, marker, label) ==
    {p \in 1..Len(option) :
        /\ StartsWithAt(option, marker, p)
        /\ StartsWithAt(option, label, SkipSpaces(option, p + Len(marker)))
        /\ HeaderType(option, SkipSpaces(option, p + Len(marker)) + Len(label) - 1)[1]}

\* group 1 of the leftmost match of marker \s* label \s*([^\n]+), given that
\* there is one
FieldLine(option, marker, label) ==
    LET starts == FieldStarts(option, marker, label)
        p == CHOOSE p \in starts : \A q \in starts : p <= q
    IN  HeaderType(option, SkipSpaces(option, p + Len(marker)) + Len(label) - 1)[2]

RECURSIVE VisualEnd(_, _)
\* (?:\n(?!STOPWATCH|MEMO|Option)[^\n]+)* from the line end e on: where the
\* repetition stops
VisualEnd(option, e) ==
    IF /\ At(option, e) = "\n"
       /\ ~StartsWithAt(option, STOPWATCH, e + 1)
       /\ ~StartsWithAt(option, MEMO, e + 1)
       /\ ~StartsWithAt(option, "Option", e + 1)
       /\ LineEnd(option, e + 1) > e + 1
    THEN VisualEnd(option, LineEnd(option, e + 1))
    ELSE e

\* where group 1 of \s*([^\n]+) starts after the colon at c, given that it
\* matches: after the blanks, or at the last blank of the text that is no
\* line feed when nothing but blanks follows
GroupStart(s, c) ==
    LET a == SkipSpaces(s, c + 1)
    IN  IF a <= Len(s) THEN a
        ELSE CHOOSE k \in (c + 1)..Len(s) :
                 /\ At(s, k) # "\n"
                 /\ \A j \in (k + 1)..Len(s) : At(s, j) = "\n"

\* line 115: group 1 of the visual pattern, given that it matches
VisualText(option) ==
    LET starts == FieldStarts(option, CLAPPER, "Visual:")
        p == CHOOSE p \in starts : \A q \in starts : p <= q
        c == SkipSpaces(option, p + Len(CLAPPER)) + Len("Visual:") - 1
        from == GroupStart(option, c)
    IN  Slice(option, from, VisualEnd(option, LineEnd(option, from)))

\* lines 90-124 for one piece: its hook_info
HookInfo(option) ==
    LET c == OptionMarker(option, 1)
        header == IF c > 0 THEN HeaderType(option, c) ELSE <<FALSE, "">>
        typed ==
            IF header[1]
            THEN [number |-> DigitsValue(Slice(option, SkipSpaces(option, 7), c), 0),
                  type |-> Strip(header[2])]
            ELSE EmptyDict
        script_match == ScriptMatch(option)
        script_content == StripSet(Strip(script_match[2]), {QUOTE})
        WithVisual(info) ==
            IF FieldStarts(option, CLAPPER, "Visual:") # {}
            THEN Put(info, "visual", Strip(VisualText(option))) ELSE info
        WithDuration(info) ==
            IF FieldStarts(option, STOPWATCH, "Duration:") # {}
            THEN Put(info, "duration", Strip(FieldLine(option, STOPWATCH, "Duration:")))
            ELSE info
        Fields(info) == WithDuration(WithVisual(info))
    IN  IF script_match[1] /\ script_content # "" /\ ~StartsWith(script_content, CLAPPER)
        THEN Fields(Put(typed, "script", script_content))
        ELSE IF "type" \in DOMAIN typed
        THEN Fields(Put(typed, "script", generate_fallback_hook(typed["type"])))
        ELSE Fields(typed)

RECURSIVE HooksData(_, _)
HooksData(options, i) ==
    IF i > Len(options) THEN << >>
    ELSE LET option == options[i]
             hook_info == HookInfo(option)
         IN  (IF /\ Strip(option) # ""
                 /\ StartsWith(option, "Option")
                 /\ Get(hook_info, "script", "") # ""
              THEN <<hook_info>> ELSE << >>) \o HooksData(options, i + 1)

\* lines 79-127
extract_hook_metadata(content) == HooksData(SplitOptions(content, 1), 1)

RECURSIVE Scripts(_, _)
\* line 14: [item['script'] for item in metadata if 'script' in item and item['script']]
Scripts(metadata, i) ==
    IF i > Len(metadata) THEN << >>
    ELSE (IF Get(metadata[i], "script", "") # "" THEN <<metadata[i]["script"]>> ELSE << >>)
             \o Scripts(metadata, i + 1)

RECURSIVE OptionMatches(_, _)
\* line 23: re.findall(option_pattern, content) from index `from` on, as
\* pairs <<num, option_type>>
OptionMatches(content, from) ==
    LET hits == {p \in from..Len(content) :
                    /\ OptionMarker(content, p) > 0
                    /\ HeaderType(content, OptionMarker(content, p))[1]}
    IN  IF hits = {} THEN << >>
        ELSE LET p == CHOOSE p \in hits : \A q \in hits : p <= q
                 c == OptionMarker(content, p)
                 num == Slice(content, SkipSpaces(content, p + 6), c)
                 type == HeaderType(content, c)[2]
                 \* the match ends where its type line ends
                 after == LineEnd(content, Find(content, type, c + 1) + Len(type))
             IN  <<<<num, type>>>> \o OptionMatches(content, after)

\* lines 27-31: an Option {num}: marker followed, anywhere later, by an
\* empty Script: line and then a marker, "Option" or the end of the text
EmptyScriptSection(content, num) ==
    \E p \in 1..Len(content) :
        /\ OptionMarker(content, p) > 0
        /\ Slice(content, SkipSpaces(content, p + 6), OptionMarker(content, p)) = num
        /\ \E m \in (OptionMarker(content, p) + 1)..Len(content) :
              /\ StartsWithAt(content, MEMO, m)
              /\ StartsWithAt(content, "Script:", SkipSpaces(content, m + Len(MEMO)))
              /\ LET q == SkipSpaces(content, m + Len(MEMO)) + Len("Script:")
                     e == SkipSpaces(content, q)
                 IN  /\ \E k \in q..(e - 1) : At(content, k) = "\n"
                     /\ \/ e = Len(content) + 1
                        \/ StartsWithAt(content, CLAPPER, e)
                        \/ StartsWithAt(content, STOPWATCH, e)
                        \/ StartsWithAt(content, "Option", e)

\* lines 35-45
TypeHook(option_type) ==
    LET hook_type == Strip(option_type)
    IN  IF Contains(hook_type, "Problem") \/ Contains(hook_type, "Agitation")
        THEN <<"Are you tired of struggling with manual tasks that eat up your valuable time?">>
        ELSE IF Contains(hook_type, "Curiosity")
        THEN <<"What if I told you there's a way to automate 80% of your repetitive work?">>
        ELSE IF Contains(hook_type, "Statistical") \/ Contains(hook_type, "Shock")
        THEN <<"90% of businesses fail because they can't scale efficiently. Here's how to be in the 10%.">>
        ELSE IF Contains(hook_type, "Question")
        THEN <<"Have you ever wondered how successful companies handle their growth?">>
        ELSE IF Contains(hook_type, "Story")
        THEN <<"Last year, I was drowning in busywork. Then I discovered this game-changing approach.">>
        ELSE << >>

RECURSIVE EmptyScriptHooks(_, _, _)
\* lines 25-45
EmptyScriptHooks(content, matches, i) ==
    IF i > Len(matches) THEN << >>
    ELSE (IF EmptyScriptSection(content, matches[i][1]) THEN TypeHook(matches[i][2])
          ELSE << >>) \o EmptyScriptHooks(content, matches, i + 1)

RECURSIVE QuotedHooks(_, _)
\* lines 51-57: re.findall(r'"([^"]{30,300})"', content) from index `from`
\* on, keeping the spans that name no metadata
QuotedHooks(content, from) ==
    LET i == Find(content, QUOTE, from)
        j == IF i = 0 \/ i > Len(content) THEN 0 ELSE Find(content, QUOTE, i + 1)
    IN  IF i = 0 \/ i > Len(content) \/ j = 0 \/ j > Len(content) THEN << >>
        ELSE IF j - i - 1 >= 30 /\ j - i - 1 <= 300
        THEN LET cleaned == Strip(Slice(content, i + 1, j))
                 low == Lower(cleaned)
             IN  (IF Contains(low, "visual:") \/ Contains(low, "duration:") \/ Contains(low, "type")
                  THEN << >> ELSE <<cleaned>>) \o QuotedHooks(content, j + 1)
        ELSE QuotedHooks(content, i + 1)

RECURSIVE NumberedHooks(_, _)
\* lines 63-75
NumberedHooks(lines, i) ==
    IF i > Len(lines) THEN << >>
    ELSE LET line == Strip(lines[i])
             d == SkipDigits(line, 1)
             numbered == d > 1 /\ At(line, d) \in {".", ")", ":"}
             cleaned == Strip(Drop(line, d))
             meta == \/ Contains(line, "Visual:") \/ Contains(line, CLAPPER)
                     \/ Contains(line, STOPWATCH) \/ Contains(line, "Duration:")
                     \/ Contains(line, "Type:")
         IN  (IF ~meta /\ numbered /\ Len(cleaned) > 20 /\ At(cleaned, Len(cleaned)) # ":"
              THEN <<cleaned>> ELSE << >>) \o NumberedHooks(lines, i + 1)

\* lines 7-77
parse_hooks_advanced(content) ==
    LET method1 == Scripts(extract_hook_metadata(content), 1)
        method2 == EmptyScriptHooks(content, OptionMatches(content, 1), 1)
        method3 == QuotedHooks(content, 1)
        method4 == NumberedHooks(Split(content, "\n"), 1)
    IN  IF method1 # << >> THEN TakeSeq(method1, 3)
        ELSE IF method2 # << >> THEN TakeSeq(method2, 3)
        ELSE IF method3 # << >> THEN TakeSeq(method3, 3)
        ELSE TakeSeq(method4, 3)

-----------------------------------------------------------------------------
(* VideoScriptState and ScriptComponent, src/src/models/config.py:66-99 *)

\* Optional[ScriptComponent] = None
NoComponent == EmptyDict

\* ScriptComponent(type=..., content="", finalized=False)
ScriptComponent ==
    [content |-> "", finalized |-> FALSE, iterations |-> 0,
     feedback_history |-> << >>, metadata |-> EmptyDict, all_options |-> << >>]

\* the project the session works on
Topic == "sleep"
Platform == "tiktok"

\* a video_duration of "" stands for None: the code only tests its truth
VideoScriptState(duration) ==
    [topic |-> Topic, platform |-> Platform, video_duration |-> duration,
     hook |-> NoComponent, story |-> NoComponent, cta |-> NoComponent,
     user_tone_samples |-> << >>, context_documents |-> << >>,
     active_module |-> "idle", conversation_history |-> << >>]

\* the rows create_new_project leaves: a project, no component, no session
NewProjectRows(duration) ==
    [video_duration |-> duration,
     hook |-> NoComponent, story |-> NoComponent, cta |-> NoComponent,
     session |-> EmptyDict]

-----------------------------------------------------------------------------
(* What one handler call leaves behind: the state it reached, whether an    *)
(* exception left it, what it told the user and the last completion read.   *)

\* BaseAgent.invoke_llm raising instead of returning a completion
RAISE == "<invoke_llm raised>"

Done(st, resp, text) ==
    [state |-> st, raised |-> FALSE, response |-> resp, completion |-> text]

Raised(st) ==
    [state |-> st, raised |-> TRUE, response |-> "exception", completion |-> ""]

\* the history entries, newest last, that offer options
OptionEvents == {"hooks_generated", "ctas_generated", "stories_generated"}

\* index of the most recent entry of one of the given types, 0 if none
LastEvent(history, types) ==
    LET hits == {i \in 1..Len(history) : history[i].type \in types}
    IN  IF hits = {} THEN 0 ELSE CHOOSE i \in hits : \A j \in hits : i >= j

-----------------------------------------------------------------------------
(* HookSpecialistAgent, src/src/agents/hook_specialist.py:69-206 *)

PaddingTypes == <<"Curiosity Gap", "Problem/Solution", "Statistical Shock">>

\* lines 142-149: the hook that fills position i of a short batch
PaddingHook(st, i) ==
    [type |-> PaddingTypes[i],
     text |-> "Alternative approach " \o ToString(i) \o " for " \o st.topic,
     visual |-> "Engaging visuals", duration |-> "5-8 seconds"]

\* lines 142 and 151: the hooks in one batch
HooksPerBatch == 3

\* lines 123-151, after invoke_llm returned hooks_response
_generate_hooks_batch(st, hooks_response) ==
    LET Padded(hooks) ==
            IF Len(hooks) < HooksPerBatch
            THEN hooks \o [i \in 1..(HooksPerBatch - Len(hooks)) |->
                              PaddingHook(st, Len(hooks) + i)]
            ELSE hooks
    IN  TakeSeq(Padded(_parse_hooks(hooks_response)), HooksPerBatch)

\* lines 111-121: how _generate_more_hooks combines the lists
MoreHooks_Replacing(all_options, new_hooks) == new_hooks

MoreHooks(all_options, new_hooks) == all_options \o new_hooks

\* An entry of conversation_history whose options is the very list object
\* state.hook.all_options carries aliased = TRUE: appends to the one are
\* appends to the other (lines 106, 118-121, 203 and main.py:726-729).
ExtendAliased(history, all_options) ==
    [i \in 1..Len(history) |->
        IF "aliased" \in DOMAIN history[i] /\ history[i].aliased
        THEN [history[i] EXCEPT !.options = all_options]
        ELSE history[i]]

Unalias(history) ==
    [i \in 1..Len(history) |->
        IF "aliased" \in DOMAIN history[i]
        THEN [history[i] EXCEPT !.aliased = FALSE]
        ELSE history[i]]

\* HookSpecialistAgent.process(state, user_input) with the outcome of its
\* one completion request, then the append of main.py:724-729 / 962-966
GenerateHooks(st, input, llm) ==
    LET st1 == IF st.hook = NoComponent THEN [st EXCEPT !.hook = ScriptComponent] ELSE st
        low == Lower(input)
        more == /\ input # ""
                /\ \E w \in {"more", "different", "other", "alternative", "additional"} :
                      Contains(low, w)
        Store(all) ==
            Done([st1 EXCEPT
                    !.hook.all_options = all,
                    !.conversation_history =
                        Append(IF more THEN ExtendAliased(@, all) ELSE Unalias(@),
                               [type |-> "hooks_generated", options |-> all,
                                aliased |-> TRUE])],
                 "hook_options", llm)
        Batch(hooks) == Store(IF more THEN MoreHooks(st1.hook.all_options, hooks) ELSE hooks)
    IN  IF llm = RAISE THEN Raised(st1) ELSE Batch(_generate_hooks_batch(st1, llm))

-----------------------------------------------------------------------------
(* VideoScriptCLI._handle_option_selection, src/main.py:627-709 *)

\* lines 705-709
NoRecentOptions_Logged(st) ==
    Done([st EXCEPT !.conversation_history = Append(@, [type |-> "invalid_selection"])],
         "no_recent_options", "")

NoRecentOptions(st) == Done(st, "no_recent_options", "")

\* st.<slot> or a fresh component when it is None
Component(st, slot) == IF st[slot] = NoComponent THEN ScriptComponent ELSE st[slot]

_handle_option_selection(st, option_num) ==
    LET history == st.conversation_history
        k == LastEvent(history, OptionEvents)
        recent_options == IF k = 0 THEN << >> ELSE history[k].options
        option_type == IF k = 0 THEN "none" ELSE history[k].type
    IN  IF recent_options # << >> /\ Len(recent_options) >= option_num
        THEN LET selected == recent_options[option_num]
             IN  IF option_type = "hooks_generated"
                 THEN Done([st EXCEPT
                              !.hook = [Component(st, "hook") EXCEPT
                                           !.content = Get(selected, "text", ""),
                                           !.finalized = TRUE],
                              !.conversation_history =
                                  Append(@, [type |-> "hook_selected", option_num |-> option_num])],
                           "hook_selected", "")
                 ELSE IF option_type = "ctas_generated"
                 THEN Done([st EXCEPT
                              !.cta = [Component(st, "cta") EXCEPT
                                          !.content = Get(selected, "primary_text",
                                                          Get(selected, "text", "")),
                                          !.finalized = TRUE]],
                           "cta_selected", "")
                 ELSE Done([st EXCEPT
                              !.story = [Component(st, "story") EXCEPT
                                            !.content = Get(selected, "structure",
                                                            Get(selected, "content", "")),
                                            !.finalized = TRUE]],
                           "story_selected", "")
        ELSE NoRecentOptions(st)

-----------------------------------------------------------------------------
(* VideoScriptCLI._handle_custom_content, src/main.py:980-1046 *)

CustomPrefixes == <<"custom:", "custom", "my own:", "use this:", "specific:">>

\* lines 1002-1008: the input without the first prefix it starts with
CustomText(input) ==
    LET hits == {i \in 1..Len(CustomPrefixes) : StartsWith(Lower(input), CustomPrefixes[i])}
    IN  IF hits = {} THEN input
        ELSE Strip(Drop(input, Len(CustomPrefixes[CHOOSE i \in hits : \A j \in hits : i <= j])))

_handle_custom_content(st, input) ==
    LET k == LastEvent(st.conversation_history, OptionEvents)
        recent_type == IF k = 0 THEN "none" ELSE st.conversation_history[k].type
        custom_text == CustomText(input)
        slot == IF recent_type = "hooks_generated" THEN "hook"
                ELSE IF recent_type = "ctas_generated" THEN "cta" ELSE "story"
    IN  IF k = 0 THEN Done(st, "generate_first", "")
        ELSE IF Lower(custom_text) \in {"custom", "my own", "specific"}
        THEN Done(st, "custom_usage", "")
        ELSE Done([st EXCEPT ![slot] = [Component(st, slot) EXCEPT
                                           !.content = custom_text, !.finalized = TRUE]],
                  "custom_set", "")

-----------------------------------------------------------------------------
(* StoryArchitectAgent, src/src/agents/story_architect.py:91-373 *)

\* the first key of an ordered dict that occurs in the text, else the default
FirstKeyIn(text, keys, values, default) ==
    LET hits == {i \in 1..Len(keys) : Contains(text, keys[i])}
    IN  IF hits = {} THEN default
        ELSE values[CHOOSE i \in hits : \A j \in hits : i <= j]

VideoTypeKeys == <<"how", "explain", "tutorial", "story", "case", "review", "teach", "entertain">>
VideoTypes == <<"how-to", "explainer", "how-to", "brand story", "case study", "review",
                "educational", "entertainment">>

\* lines 296-331
_determine_video_type(st, input) ==
    LET platform_default ==
            IF st.platform = "youtube" THEN "explainer"
            ELSE IF st.platform = "tiktok" THEN "entertainment"
            ELSE IF st.platform = "instagram" THEN "brand story" ELSE "general"
        by_topic == FirstKeyIn(Lower(st.topic), VideoTypeKeys, VideoTypes, platform_default)
    IN  IF input # "" THEN FirstKeyIn(Lower(input), VideoTypeKeys, VideoTypes, by_topic)
        ELSE by_topic

\* lines 376-392
_identify_framework(input) ==
    FirstKeyIn(Lower(input),
               <<"problem", "hero", "before", "star", "nested", "converging">>,
               <<"Problem-Solution", "Hero's Journey", "Before-After-Bridge", "STAR",
                 "Nested Loops", "Converging Ideas">>,
               "Problem-Solution")

BeatMarkerChars == {"0", "1", "2", "3", "4", "5", "6", "7", "8", "9", ".", "-", BULLET, " "}

RECURSIVE StoryStructure(_, _, _, _)
\* lines 344-372: the fold over the lines of the completion
StoryStructure(lines, i, structure, current_section) ==
    IF i > Len(lines) THEN structure
    ELSE LET line == Strip(lines[i])
             act == IF Contains(line, "Act 1") \/ Contains(line, "Setup") THEN "Setup"
                    ELSE IF Contains(line, "Act 2") \/ Contains(line, "Development")
                    THEN "Development"
                    ELSE IF Contains(line, "Act 3") \/ Contains(line, "Resolution")
                    THEN "Resolution" ELSE ""
             is_beat == /\ act = ""
                        /\ line # ""
                        /\ (IsDigit(At(line, 1)) \/ StartsWith(line, "-") \/ StartsWith(line, BULLET))
             beat == LStripSet(line, BeatMarkerChars)
             n == Len(structure.acts)
             acts1 == IF act # "" THEN Append(structure.acts, [name |-> act, content |-> << >>])
                      ELSE IF is_beat /\ current_section # "" /\ n > 0
                      THEN [structure.acts EXCEPT ![n].content = Append(@, beat)]
                      ELSE structure.acts
             low == Lower(line)
         IN  StoryStructure(lines, i + 1,
                 [acts |-> acts1,
                  beats |-> IF is_beat THEN Append(structure.beats, beat) ELSE structure.beats,
                  transitions |-> IF Contains(low, "transition")
                                  THEN Append(structure.transitions, line)
                                  ELSE structure.transitions,
                  examples |-> IF Contains(low, "example") \/ Contains(low, "case")
                               THEN Append(structure.examples, line)
                               ELSE structure.examples],
                 IF act # "" THEN act ELSE current_section)

\* lines 333-373
_parse_story_structure(story_response) ==
    StoryStructure(Split(story_response, "\n"), 1,
                   [acts |-> << >>, beats |-> << >>, transitions |-> << >>, examples |-> << >>],
                   "")

\* StoryArchitectAgent.process(state, user_input) with the outcome of its one
\* completion request; `structure` tells whether the response carries a
\* story_structure
StoryProcess(st, input, llm) ==
    LET NoStructure(r) == r @@ [structure |-> EmptyDict, has_structure |-> FALSE]
        \* lines 103-112, st1 has a story component
        Act(st1) ==
            IF st1.story.content = "" \/ (input # "" /\ Contains(Lower(input), "new"))
            THEN \* _generate_new_story, lines 114-186
                 LET Store(st2, story_structure) ==
                         Done([st2 EXCEPT
                                 !.story.content = llm,
                                 !.story.iterations = @ + 1,
                                 !.story.metadata =
                                     Put(Put(@, "structure", story_structure),
                                         "video_type", _determine_video_type(st2, input))],
                              "story_structure", llm)
                         @@ [structure |-> story_structure, has_structure |-> TRUE]
                     Request(st2) ==
                         IF llm = RAISE THEN NoStructure(Raised(st2))
                         ELSE Store(st2, _parse_story_structure(llm))
                 IN  Request(IF st1.video_duration # ""
                             THEN [st1 EXCEPT !.story.metadata =
                                      Put(@, "video_duration", st1.video_duration)]
                             ELSE st1)
            ELSE IF llm = RAISE THEN NoStructure(Raised(st1))
            ELSE IF /\ input # ""
                    /\ \E w \in {"framework", "structure", "adapt"} : Contains(Lower(input), w)
            THEN \* _adapt_framework, lines 188-232
                 NoStructure(
                     Done([st1 EXCEPT
                             !.story.content = llm,
                             !.story.iterations = @ + 1,
                             !.story.metadata = Put(@, "framework", _identify_framework(input)),
                             !.story.feedback_history =
                                 Append(@, "Adapted to " \o _identify_framework(input)
                                               \o " framework")],
                          "story_adapted", llm))
            ELSE \* _enhance_story, lines 234-280
                 NoStructure(
                     Done([st1 EXCEPT
                             !.story.content = llm,
                             !.story.iterations = @ + 1,
                             !.story.feedback_history =
                                 IF input # "" THEN Append(@, input) ELSE @],
                          "story_enhanced", llm))
    IN  Act(IF st.story = NoComponent THEN [st EXCEPT !.story = ScriptComponent] ELSE st)

-----------------------------------------------------------------------------
(* Python float arithmetic of calculate_act_duration. A float is an IEEE    *)
(* 754 double: zero, or 0.b1 b2 ... b53 * 2^exp with b1 = 1, the bits       *)
(* written most significant first.                                          *)

\* bits of the significand of a double
MantissaBits == 53

Zero == [bits |-> << >>, exp |-> 0]

Zeros(k) == IF k <= 0 THEN << >> ELSE [i \in 1..k |-> 0]

RECURSIVE BitsOfNat(_)
BitsOfNat(n) == IF n = 0 THEN << >> ELSE BitsOfNat(n \div 2) \o <<n % 2>>

RECURSIVE NatOfBits(_, _)
NatOfBits(bits, acc) ==
    IF bits = << >> THEN acc ELSE NatOfBits(Tail(bits), 2 * acc + Head(bits))

\* bits + 1 and the carry out of the first bit
Increment(bits) ==
    LET zeros == {i \in 1..Len(bits) : bits[i] = 0}
        Raised1(k) == [i \in 1..Len(bits) |-> IF i < k THEN bits[i] ELSE IF i = k THEN 1 ELSE 0]
    IN  IF zeros = {} THEN [bits |-> Zeros(Len(bits)), carry |-> 1]
        ELSE [bits |-> Raised1(CHOOSE k \in zeros : \A j \in zeros : j <= k), carry |-> 0]

\* 0.bits * 2^exp (plus less than one last place when `sticky`) rounded to
\* the nearest double, ties to the even significand
RoundToDouble(bits, sticky, exp) ==
    LET padded == bits \o Zeros(MantissaBits + 1 - Len(bits))
        kept == SubSeq(padded, 1, MantissaBits)
        rest == sticky \/ \E i \in (MantissaBits + 2)..Len(padded) : padded[i] = 1
        up == padded[MantissaBits + 1] = 1 /\ (rest \/ kept[MantissaBits] = 1)
        Up(inc) == IF inc.carry = 1
                   THEN [bits |-> <<1>> \o SubSeq(inc.bits, 1, MantissaBits - 1),
                         exp |-> exp + 1]
                   ELSE [bits |-> inc.bits, exp |-> exp]
    IN  IF up THEN Up(Increment(kept)) ELSE [bits |-> kept, exp |-> exp]

\* 2^k modulo q
RECURSIVE Pow2Mod(_, _)
Pow2Mod(k, q) ==
    IF k = 0 THEN 1 % q
    ELSE IF k % 2 = 1 THEN (2 * Pow2Mod(k - 1, q)) % q
    ELSE LET Square(h) == (h * h) % q IN Square(Pow2Mod(k \div 2, q))

\* what is left of r/q (r < q) below its first k binary digits, times q * 2^k
FractionRem(r, q, k) == (r * Pow2Mod(k, q)) % q

\* the k-th binary digit of r/q after the point
FractionBit(r, q, k) == IF 2 * FractionRem(r, q, k - 1) >= q THEN 1 ELSE 0

\* the double a decimal literal p/q denotes
DoubleOf(p, q) ==
    IF p = 0 THEN Zero
    ELSE LET ibits == BitsOfNat(p \div q)
             r == p % q
             \* zeros after the point before the first digit of a value below 1
             zeros == IF ibits # << >> \/ r = 0 THEN 0
                      ELSE (CHOOSE k \in 1..Len(BitsOfNat(q)) :
                                /\ FractionBit(r, q, k) = 1
                                /\ \A j \in 1..(k - 1) : FractionBit(r, q, j) = 0) - 1
             need == MantissaBits + 1 - Len(ibits)
             fbits == [k \in 1..need |-> FractionBit(r, q, zeros + k)]
         IN  RoundToDouble(ibits \o fbits, FractionRem(r, q, zeros + need) # 0,
                           IF ibits # << >> THEN Len(ibits) ELSE -zeros)

\* bits of a limb and the limb's base: the bit sequences are multiplied in
\* groups of LimbBits bits
LimbBits == 10
LimbBase == 2 ^ LimbBits

\* the groups of LimbBits bits of `bits`, least significant first
Limbs(bits) ==
    [j \in 1..((Len(bits) + LimbBits - 1) \div LimbBits) |->
        LET hi == Len(bits) - LimbBits * (j - 1)
            lo == IF hi - LimbBits + 1 < 1 THEN 1 ELSE hi - LimbBits + 1
        IN  NatOfBits(SubSeq(bits, lo, hi), 0)]

RECURSIVE TimesLimbs(_, _, _)
TimesLimbs(limbs, n, carry) ==
    IF limbs = << >>
    THEN IF carry = 0 THEN << >>
         ELSE <<carry % LimbBase>> \o TimesLimbs(limbs, n, carry \div LimbBase)
    ELSE LET t == Head(limbs) * n + carry
         IN  <<t % LimbBase>> \o TimesLimbs(Tail(limbs), n, t \div LimbBase)

RECURSIVE BitsOfLimbs(_)
BitsOfLimbs(limbs) ==
    IF limbs = << >> THEN << >>
    ELSE BitsOfLimbs(Tail(limbs))
             \o Zeros(LimbBits - Len(BitsOfNat(Head(limbs)))) \o BitsOfNat(Head(limbs))

\* the bits of bits * n, without leading zeros (n below 2^20)
TimesNat(bits, n) ==
    LET Stripped(product) ==
            LET ones == {i \in 1..Len(product) : product[i] = 1}
            IN  IF ones = {} THEN << >>
                ELSE SubSeq(product, CHOOSE i \in ones : \A j \in ones : i <= j, Len(product))
    IN  Stripped(BitsOfLimbs(TimesLimbs(Limbs(bits), n, 0)))

\* d * (n / 2^halvings): the product of the double d and a float that holds
\* the integer or half-integer n / 2^halvings exactly, rounded once
Times(d, n, halvings) ==
    IF d.bits = << >> \/ n = 0 THEN Zero
    ELSE LET Rounded(product) ==
                 RoundToDouble(product, FALSE,
                               d.exp + Len(product) - MantissaBits - halvings)
         IN  Rounded(TimesNat(d.bits, n))

\* d < 1
BelowOne(d) == d.bits = << >> \/ d.exp <= 0

\* int(d)
Truncated(d) == IF BelowOne(d) THEN 0 ELSE NatOfBits(SubSeq(d.bits, 1, d.exp), 0)

\* f"{d:.1f}": the exact value of d rounded to tenths, ties to even
FormatOneDecimal(d) ==
    LET Tenths(product) ==
            LET whole == d.exp + Len(product) - MantissaBits
                n == IF whole <= 0 THEN 0 ELSE NatOfBits(SubSeq(product, 1, whole), 0)
                half == whole >= 0 /\ whole < Len(product) /\ product[whole + 1] = 1
                more == \E i \in (whole + 2)..Len(product) : i >= 1 /\ product[i] = 1
            IN  IF half /\ (more \/ n % 2 = 1) THEN n + 1 ELSE n
        Shown(tenths) == ToString(tenths \div 10) \o "." \o ToString(tenths % 10)
    IN  IF d.bits = << >> THEN "0.0" ELSE Shown(Tenths(TimesNat(d.bits, 10)))

-----------------------------------------------------------------------------
(* EnhancedStoryArchitect.calculate_act_duration,
   src/src/agents/story_architect_enhanced.py:12-37 *)

\* proportions = {1: 0.2, 2: 0.6, 3: 0.2} and the default 0.33, lines 27-28
proportions(act_num) ==
    IF act_num \in {1, 3} THEN DoubleOf(2, 10)
    ELSE IF act_num = 2 THEN DoubleOf(6, 10)
    ELSE DoubleOf(33, 100)

\* seconds in a minute, line 35
SecondsPerMinute == 60

\* re.search(r'(\d+)(?:-(\d+))?', total_duration) and lines 20-21
DurationRange(total_duration) ==
    LET starts == {p \in 1..Len(total_duration) : IsDigit(At(total_duration, p))}
        Match(p, d) ==
            LET min_val == DigitsValue(Slice(total_duration, p, d), 0)
            IN  [match |-> TRUE, min_val |-> min_val,
                 max_val |-> IF At(total_duration, d) = "-" /\ IsDigit(At(total_duration, d + 1))
                             THEN DigitsValue(Slice(total_duration, d + 1,
                                                    SkipDigits(total_duration, d + 1)), 0)
                             ELSE min_val]
        First(p) == Match(p, SkipDigits(total_duration, p))
    IN  IF starts = {} THEN [match |-> FALSE, min_val |-> 0, max_val |-> 0]
        ELSE First(CHOOSE p \in starts : \A q \in starts : p <= q)

calculate_act_duration(total_duration, act_num) ==
    LET Duration(act_duration) ==
            IF Contains(total_duration, "second")
            THEN ToString(Truncated(act_duration)) \o " seconds"
            ELSE IF BelowOne(act_duration)
                 THEN ToString(Truncated(Times(act_duration, SecondsPerMinute, 0))) \o " seconds"
                 ELSE FormatOneDecimal(act_duration) \o " minutes"
        \* avg_val = (min_val + max_val) / 2 is exact, avg_val * proportion rounds
        Act(range) ==
            IF ~range.match THEN "a few seconds"
            ELSE Duration(Times(proportions(act_num), range.min_val + range.max_val, 1))
    IN  Act(DurationRange(total_duration))

-----------------------------------------------------------------------------
(* EnhancedStoryArchitect timing, src/src/agents/story_architect_enhanced.py:40-115 *)

\* platform_defaults.get(state.platform, '2-3 minutes'), lines 81-86
DefaultDuration(st) ==
    IF st.platform = "tiktok" THEN "30-60 seconds"
    ELSE IF st.platform = "instagram" THEN "1-2 minutes"
    ELSE IF st.platform = "youtube" THEN "5-7 minutes"
    ELSE "2-3 minutes"

\* the end of \d+(?:-\d+)? matched at p
NumberRangeEnd(s, p) ==
    LET d == SkipDigits(s, p)
    IN  IF At(s, d) = "-" /\ IsDigit(At(s, d + 1)) THEN SkipDigits(s, d + 1) ELSE d

\* lines 94-101: a number or range followed by a unit, normalised
DurationWithUnit(low) ==
    LET Unit(p) == SkipSpaces(low, NumberRangeEnd(low, p))
        hits == {p \in 1..Len(low) :
                    /\ IsDigit(At(low, p))
                    /\ \/ StartsWithAt(low, "s", Unit(p))
                       \/ StartsWithAt(low, "m", Unit(p))}
    IN  IF hits = {} THEN ""
        ELSE LET p == CHOOSE p \in hits : \A q \in hits : p <= q
             IN  Slice(low, p, NumberRangeEnd(low, p))
                     \o (IF StartsWithAt(low, "s", Unit(p)) THEN " seconds" ELSE " minutes")

\* lines 104-110: ^(\d+)(?:-(\d+))?$ on the stripped input
BareNumber(text) ==
    IF text # "" /\ IsDigit(At(text, 1)) /\ NumberRangeEnd(text, 1) = Len(text) + 1
    THEN text \o " minutes" ELSE ""

\* lines 77-115: the duration stored in story.metadata
TimingPreference(st, input) ==
    IF Strip(input) = "" THEN DefaultDuration(st)
    ELSE IF DurationWithUnit(Lower(input)) # "" THEN DurationWithUnit(Lower(input))
    ELSE IF BareNumber(Strip(input)) # "" THEN BareNumber(Strip(input))
    ELSE DefaultDuration(st)

handle_timing_preference(st, input) ==
    [st EXCEPT !.story.metadata =
        Put(Put(@, "video_duration", TimingPreference(st, input)), "awaiting_timing", FALSE)]

-----------------------------------------------------------------------------
(* VideoScriptCLI._generate_story, src/main.py:732-826 *)

_generate_story(st, user_mood_input, skip_mood_check, llm) ==
    LET h0 == st.conversation_history
        awaiting_mood_response ==
            h0 # << >> /\ h0[Len(h0)].type = "awaiting_mood_response"
        mood_already_handled ==
            st.story # NoComponent /\ Get(st.story.metadata, "mood_handled", FALSE)
        \* lines 806-824, after process returned r
        Finish(r) ==
            LET Mode(s) ==
                    IF Get(s.story.metadata, "video_duration", "") # ""
                    THEN [s EXCEPT !.story.metadata =
                             Put(Put(Put(@, "workflow_mode", "act_development"),
                                     "current_act", 1), "acts_content", EmptyDict)]
                    ELSE s
                Record(s) ==
                    IF r.has_structure
                    THEN [s EXCEPT !.conversation_history =
                             Append(@, [type |-> "stories_generated",
                                        options |-> <<r.structure>>])]
                    ELSE s
            IN  IF r.raised THEN Raised(r.state)
                ELSE Done(Record(Mode(r.state)), r.response, llm)
        \* lines 794-798
        WithMood(s) ==
            IF user_mood_input # ""
            THEN [s EXCEPT !.context_documents =
                     Append(@, "User's preferred emotional journey: " \o user_mood_input)]
            ELSE s
        \* lines 784-792, st1 has a story component
        Generate(st1) ==
            IF st1.video_duration # ""
            THEN Finish(StoryProcess(
                     WithMood([st1 EXCEPT !.story.metadata =
                                  Put(@, "video_duration", st1.video_duration)]),
                     user_mood_input, llm))
            ELSE IF /\ Get(st1.story.metadata, "video_duration", "") = ""
                    /\ ~Get(st1.story.metadata, "awaiting_timing", FALSE)
            THEN Done([st1 EXCEPT !.story.metadata = Put(@, "awaiting_timing", TRUE)],
                      "ask_timing", "")
            ELSE Finish(StoryProcess(WithMood(st1), user_mood_input, llm))
        \* lines 755-782, popped is the state without the awaiting flag
        AfterPop(popped) ==
            LET h1 == popped.conversation_history
                low == IF Len(h1) - 3 > 0 THEN Len(h1) - 3 ELSE 0
                hook_just_selected ==
                    \E j \in (low + 2)..Len(h1) : h1[j].type = "hook_selected"
            IN  IF /\ hook_just_selected /\ user_mood_input = ""
                   /\ ~awaiting_mood_response /\ ~skip_mood_check /\ ~mood_already_handled
                   /\ st.hook # NoComponent /\ st.hook.content # ""
                THEN Done([popped EXCEPT !.conversation_history =
                              Append(@, [type |-> "awaiting_mood_response"])],
                          "ask_mood", "")
                ELSE Generate(IF popped.story = NoComponent
                              THEN [popped EXCEPT !.story = ScriptComponent]
                              ELSE popped)
    IN  AfterPop(IF awaiting_mood_response
                 THEN [st EXCEPT !.conversation_history = SubSeq(@, 1, Len(@) - 1)]
                 ELSE st)

-----------------------------------------------------------------------------
(* CTAStrategistAgent, src/src/agents/cta_strategist.py:112-560 *)

\* lines 503-519
_identify_urgency_type(input) ==
    FirstKeyIn(Lower(input),
               <<"scarc", "time", "social", "fomo", "exclusive", "bonus">>,
               <<"Scarcity", "Time-sensitive", "Social Proof", "FOMO", "Exclusive Access",
                 "Bonus Incentive">>,
               "Time-sensitive")

\* lines 551-556: the first non-blank line that is not a heading, unquoted
ImprovedCta(text) ==
    LET lines == Split(text, "\n")
        hits == {i \in 1..Len(lines) : Strip(lines[i]) # "" /\ ~StartsWith(lines[i], "#")}
    IN  IF hits = {} THEN Strip(text)
        ELSE StripSet(Strip(lines[CHOOSE i \in hits : \A j \in hits : i <= j]), {QUOTE})

NoCtas(r) == r @@ [ctas |-> << >>, has_ctas |-> FALSE]

\* CTAStrategistAgent.process(state, user_input) with the outcomes of its
\* first and second completion request
CtaProcess(st, input, llm1, llm2) ==
    LET st1 == IF st.cta = NoComponent THEN [st EXCEPT !.cta = ScriptComponent] ELSE st
        low == Lower(input)
        Has(words) == input # "" /\ \E w \in words : Contains(low, w)
    IN  IF st1.cta.content = "" \/ Has({"new"})
        THEN \* _generate_new_ctas, lines 139-262
             IF llm1 = RAISE THEN NoCtas(Raised(st1))
             ELSE LET Strategy(ctas, st2) ==
                          IF llm2 = RAISE THEN NoCtas(Raised(st2))
                          ELSE Done(st2, "cta_options", llm1)
                                   @@ [ctas |-> ctas, has_ctas |-> TRUE]
                      Store(ctas) ==
                          Strategy(ctas,
                                   IF ctas # << >>
                                   THEN [st1 EXCEPT
                                           !.cta.content = ctas[1].primary_text,
                                           !.cta.iterations = @ + 1,
                                           !.cta.metadata = Put(@, "variants", ctas)]
                                   ELSE st1)
                  IN  Store(_parse_ctas(llm1))
        ELSE IF Has({"platform", "optimize"})
        THEN \* _optimize_for_platform, lines 264-306
             IF llm1 = RAISE THEN NoCtas(Raised(st1))
             ELSE NoCtas(Done([st1 EXCEPT
                                 !.cta.content = llm1,
                                 !.cta.iterations = @ + 1,
                                 !.cta.metadata = Put(@, "platform_optimized", TRUE)],
                              "cta_optimized", llm1))
        ELSE IF Has({"urgency", "urgent", "now"})
        THEN \* _enhance_urgency, lines 308-355
             IF llm1 = RAISE THEN NoCtas(Raised(st1))
             ELSE NoCtas(Done([st1 EXCEPT
                                 !.cta.iterations = @ + 1,
                                 !.cta.feedback_history =
                                     Append(@, "Enhanced with " \o _identify_urgency_type(input)
                                                   \o " urgency")],
                              "cta_urgency", llm1))
        ELSE IF Has({"test", "variant", "ab"})
        THEN \* _create_ab_variants, lines 357-404
             IF llm1 = RAISE THEN NoCtas(Raised(st1))
             ELSE NoCtas(Done([st1 EXCEPT !.cta.metadata = Put(@, "ab_variants", llm1)],
                              "cta_variants", llm1))
        ELSE \* _improve_existing_cta, lines 406-450
             IF llm1 = RAISE \/ llm2 = RAISE THEN NoCtas(Raised(st1))
             ELSE NoCtas(Done([st1 EXCEPT
                                 !.cta.content = ImprovedCta(llm2),
                                 !.cta.iterations = @ + 1,
                                 !.cta.feedback_history =
                                     IF input # "" THEN Append(@, input) ELSE @],
                              "cta_improved", llm2))

\* VideoScriptCLI._generate_cta and _handle_cta_followup, src/main.py:828-868
CtaTurn(st, input, llm1, llm2) ==
    LET Store(r) ==
            IF r.raised THEN Raised(r.state)
            ELSE IF r.has_ctas
            THEN Done([r.state EXCEPT !.conversation_history =
                          Append(@, [type |-> "ctas_generated", options |-> r.ctas])],
                      r.response, r.completion)
            ELSE Done(r.state, r.response, r.completion)
    IN  Store(CtaProcess(st, input, llm1, llm2))

_generate_cta(st, llm1, llm2) == CtaTurn(st, "", llm1, llm2)

_handle_cta_followup(st, input, llm1, llm2) == CtaTurn(st, input, llm1, llm2)

\* lines 484-488: ctas_generated among the last three history entries
last_cta_generation(st) ==
    LET h == st.conversation_history
    IN  \E i \in 1..Len(h) : i > Len(h) - 3 /\ h[i].type = "ctas_generated"

CtaFollowupWords == {"optimize", "urgency", "variant", "youtube", "tiktok", "instagram", "softer"}

-----------------------------------------------------------------------------
(* Advisory agents called without input: research_analyst.py:235-315,
   stylist.py:360-448, challenger.py:377-506 *)

HasContent(st) ==
    \E slot \in {"hook", "story", "cta"} : Component(st, slot).content # ""

\* _research_analysis, _style_content and _challenge_content, src/main.py:870-913:
\* a fixed reply without content, otherwise one completion that is only shown
AdviseOnScript(st, llm) ==
    IF ~HasContent(st) THEN Done(st, "agent_ready", "")
    ELSE IF llm = RAISE THEN Raised(st)
    ELSE Done(st, "analysis", llm)

-----------------------------------------------------------------------------
(* VideoScriptCLI._edit_component, src/main.py:1048-1099 *)

SetComponent(st, slot, c) ==
    IF slot = "hook" THEN [st EXCEPT !.hook = c]
    ELSE IF slot = "story" THEN [st EXCEPT !.story = c]
    ELSE [st EXCEPT !.cta = c]

\* saved tells whether save_state ran
_edit_component(st, component_type, new_content) ==
    LET c == Component(st, component_type)
    IN  IF c.content = ""
        THEN Done(st, "nothing_to_edit", "") @@ [saved |-> FALSE]
        ELSE IF Lower(new_content) # "cancel" /\ Strip(new_content) # ""
        THEN Done(SetComponent(st, component_type,
                               [c EXCEPT !.content = new_content, !.iterations = @ + 1]),
                  "component_updated", "") @@ [saved |-> TRUE]
        ELSE Done(st, "edit_cancelled", "") @@ [saved |-> FALSE]

-----------------------------------------------------------------------------
(* EnhancedStoryArchitect.process_act_development and its steps,
   src/src/agents/story_architect_enhanced.py:149-687 *)

\* del d[k]
Del(d, k) == [x \in DOMAIN d \ {k} |-> d[x]]

\* f'act_{n}'
ActKey(n) == "act_" \o At(DigitChars, n + 1)

ActDraft(st, act_num) ==
    Get(Get(st.story.metadata, "acts_content", EmptyDict), ActKey(act_num), "")

\* lines 410-472: the draft is stored, then the completion is requested
review_draft(st, draft, act_num, is_addition, llm) ==
    LET existing_draft == ActDraft(st, act_num)
        stored == IF is_addition /\ existing_draft # ""
                  THEN existing_draft \o "\n\n" \o draft ELSE draft
        st1 == [st EXCEPT !.story.metadata.acts_content = Put(@, ActKey(act_num), stored)]
    IN  IF llm = RAISE THEN Raised(st1) ELSE Done(st1, "draft_feedback", llm)

\* lines 549-558: full_script of complete_script
final_script(st) ==
    LET acts_content == Get(st.story.metadata, "acts_content", EmptyDict)
        duration == Get(st.story.metadata, "video_duration", "Unknown duration")
        Part(i) ==
            LET act_content == Get(acts_content, ActKey(i), "")
            IN  IF act_content # ""
                THEN <<"**Act " \o ToString(i) \o " (" \o calculate_act_duration(duration, i)
                           \o "):**\n" \o act_content>>
                ELSE << >>
        Joined(parts) ==
            IF parts = << >> THEN ""
            ELSE IF Len(parts) = 1 THEN parts[1]
            ELSE IF Len(parts) = 2 THEN parts[1] \o "\n\n---\n\n" \o parts[2]
            ELSE parts[1] \o "\n\n---\n\n" \o parts[2] \o "\n\n---\n\n" \o parts[3]
    IN  Joined(Part(1) \o Part(2) \o Part(3))

\* lines 546-592
complete_script(st) == Done([st EXCEPT !.story.finalized = TRUE], "script_complete", "")

\* move_to_next_act without the test of line 477
move_to_next_act_Unbounded(st) ==
    Done([st EXCEPT !.story.metadata = Put(@, "current_act", Get(@, "current_act", 1) + 1)],
         "next_act", "")

\* lines 473-506
move_to_next_act(st) ==
    LET current_act == Get(st.story.metadata, "current_act", 1)
    IN  IF current_act >= 3 THEN complete_script(st)
        ELSE Done([st EXCEPT !.story.metadata = Put(@, "current_act", current_act + 1)],
                  "next_act", "")

\* enhance_draft that puts the rewrite in the place of the draft
enhance_draft_Writing(st, act_num, llm) ==
    IF ActDraft(st, act_num) = "" THEN Done(st, "no_draft_to_enhance", "")
    ELSE IF llm = RAISE THEN Raised(st)
    ELSE Done([st EXCEPT !.story.metadata.acts_content = Put(@, ActKey(act_num), llm)],
              "enhanced_draft", llm)

\* lines 594-649
enhance_draft(st, act_num, llm) ==
    IF ActDraft(st, act_num) = "" THEN Done(st, "no_draft_to_enhance", "")
    ELSE IF llm = RAISE THEN Raised(st)
    ELSE Done([st EXCEPT !.story.metadata = Put(@, "enhanced_draft", llm)],
              "enhanced_draft", llm)

\* the scroll emoji of line 525 and the backtick of line 537
SCROLL == "&"
BACKTICK == "'"

\* lines 509-543: response_content of show_full_script
FullScript(st) ==
    LET acts_content == Get(st.story.metadata, "acts_content", EmptyDict)
        duration == Get(st.story.metadata, "video_duration", "Unknown duration")
        current_act == ToString(Get(st.story.metadata, "current_act", 1))
        Part(i) ==
            LET act_content == Get(acts_content, ActKey(i), "")
            IN  IF act_content # "" /\ act_content # "[Act " \o ToString(i) \o " not written yet]"
                THEN <<"**Act " \o ToString(i) \o " (" \o calculate_act_duration(duration, i)
                           \o "):**\n" \o act_content>>
                ELSE << >>
        script_parts == Part(1) \o Part(2) \o Part(3)
        Joined(parts) ==
            IF parts = << >> THEN "No acts written yet."
            ELSE IF Len(parts) = 1 THEN parts[1]
            ELSE IF Len(parts) = 2 THEN parts[1] \o "\n\n---\n\n" \o parts[2]
            ELSE parts[1] \o "\n\n---\n\n" \o parts[2] \o "\n\n---\n\n" \o parts[3]
    IN  "**" \o SCROLL \o " Your Complete Script So Far**\n**Video Duration:** " \o duration
            \o "\n**Topic:** " \o st.topic \o "\n\n---\n\n" \o Joined(script_parts)
            \o "\n\n---\n\n**Current Status:** Working on Act " \o current_act
            \o "\n\nContinue with Act " \o current_act \o " or type " \o BACKTICK \o "next act" \o BACKTICK \o " to proceed."

\* show_full_script that also moves to the next act
show_full_script_Advancing(st) ==
    Done([st EXCEPT !.story.metadata =
             Put(@, "current_act", Get(@, "current_act", 1) + 1)],
         FullScript(st), "")

\* lines 509-543: the state is read, the script is shown
show_full_script(st) == Done(st, FullScript(st), "")

\* an advice that also drops the draft of the act
ActAdvice_Dropping(st, reply, llm) ==
    IF llm = RAISE THEN Raised(st)
    ELSE Done([st EXCEPT !.story.metadata.acts_content = EmptyDict], reply, llm)

\* research_topic, suggest_examples and provide_feedback, lines 319-408 and
\* 651-687: one completion that is only shown
ActAdvice(st, reply, llm) == IF llm = RAISE THEN Raised(st) ELSE Done(st, reply, llm)

ExampleRequests == {"add example", "add some example", "can you add example", "give me example"}
EnhanceKeywords == {"enhance", "improve", "make better", "refine", "polish", "upgrade",
                    "strengthen", "optimize"}
AddKeywords == {"also", "additionally", "plus", "and", "furthermore", "moreover", "in addition"}
QuestionKeywords == {"can you", "could you", "would you", "please", "help me", "what if",
                     "how about"}
MaxEnhanceCommand == 100

\* the cross mark of line 187
CROSS_MARK == "#"

\* lines 185-190: the answer to `use enhanced` when nothing is staged
no_enhanced_draft_Clearing(st) ==
    Done([st EXCEPT !.story.metadata.acts_content = EmptyDict], "", "")

no_enhanced_draft(st) ==
    Done(st, CROSS_MARK \o " **No enhanced version available.** Please type " \o BACKTICK
                 \o "enhance" \o BACKTICK
                 \o " first to create an enhanced version of your draft.", "")

\* lines 149-317
process_act_development(st, input, llm) ==
    LET current_act == Get(st.story.metadata, "current_act", 1)
        st0 == IF "acts_content" \in DOMAIN st.story.metadata THEN st
               ELSE [st EXCEPT !.story.metadata = Put(@, "acts_content", EmptyDict)]
        user_lower == Strip(Lower(input))
        enhanced_draft == Get(st0.story.metadata, "enhanced_draft", "")
        draft_with_colon == StartsWith(user_lower, "draft:")
        draft_with_space == StartsWith(user_lower, "draft ") /\ Len(Strip(input)) > 6
        draft_content == Strip(Drop(input, 6))
    IN  IF StartsWith(user_lower, "research:") THEN ActAdvice(st0, "research", llm)
        ELSE IF \/ StartsWith(user_lower, "example:") \/ StartsWith(user_lower, "examples:")
                \/ \E w \in ExampleRequests : Contains(user_lower, w)
        THEN ActAdvice(st0, "examples", llm)
        ELSE IF Contains(user_lower, "use enhanced") /\ enhanced_draft = ""
        THEN no_enhanced_draft(st0)
        ELSE IF enhanced_draft # "" /\ Contains(user_lower, "use enhanced")
        THEN IF Strip(enhanced_draft) = "" THEN Done(st0, "empty_enhanced_draft", "")
             ELSE Done([st0 EXCEPT !.story.metadata =
                           Del([@ EXCEPT !.acts_content =
                                   Put(@, ActKey(current_act), enhanced_draft)],
                               "enhanced_draft")],
                       "draft_replaced", "")
        ELSE IF enhanced_draft # "" /\ Contains(user_lower, "keep original")
        THEN Done([st0 EXCEPT !.story.metadata = Del(@, "enhanced_draft")], "kept_original", "")
        ELSE IF draft_with_colon \/ draft_with_space
        THEN IF draft_content = "" THEN Done(st0, "empty_draft", "")
             ELSE review_draft(st0, draft_content, current_act, FALSE, llm)
        ELSE IF /\ \E w \in EnhanceKeywords : Contains(user_lower, w)
                /\ Len(input) < MaxEnhanceCommand
        THEN enhance_draft(st0, current_act, llm)
        ELSE IF Contains(Lower(input), "next act") THEN move_to_next_act(st0)
        ELSE IF Contains(Lower(input), "show script") THEN show_full_script(st0)
        ELSE IF \E w \in QuestionKeywords : StartsWith(user_lower, w)
        THEN ActAdvice(st0, "act_feedback", llm)
        ELSE review_draft(st0, input, current_act,
                          \E w \in AddKeywords : StartsWith(user_lower, w), llm)

-----------------------------------------------------------------------------
(* OrchestratorAgent, src/src/agents/orchestrator.py:53-480 *)

Intents == {"START_HOOK", "START_STORY", "START_CTA", "REVIEW_SCRIPT", "PROVIDE_CONTEXT",
            "ADD_TONE_SAMPLE", "REQUEST_FEEDBACK", "FINALIZE_COMPONENT", "UNCLEAR"}

\* lines 108-122: the option selection patterns searched in the lowered input
IsOptionPattern(input_lower) ==
    \/ \E p \in 1..Len(input_lower) :
           StartsWithAt(input_lower, "option ", p) /\ IsDigit(At(input_lower, p + 7))
    \/ input_lower \in {"1", "2", "3", "1\n", "2\n", "3\n"}
    \/ \E w \in {"first", "second", "third"} : Contains(input_lower, w)

\* lines 88-168; llm is the outcome of the intent completion
_detect_intent(input, llm) ==
    LET input_lower == Lower(input)
        Mentions(words) == \E w \in words : Contains(input_lower, w)
    IN  IF input = "" THEN "UNCLEAR"
        ELSE IF IsOptionPattern(input_lower) THEN "UNCLEAR"
        ELSE IF Mentions({"hook", "opening", "start of video"}) THEN "START_HOOK"
        ELSE IF Mentions({"story", "narrative", "structure", "body"}) THEN "START_STORY"
        ELSE IF Mentions({"cta", "call to action", "ending"}) THEN "START_CTA"
        ELSE IF Mentions({"review", "check", "see script"}) THEN "REVIEW_SCRIPT"
        ELSE IF Mentions({"finalize", "lock", "confirm"}) THEN "FINALIZE_COMPONENT"
        ELSE IF llm = RAISE THEN RAISE
        ELSE IF Upper(Strip(llm)) \in Intents THEN Upper(Strip(llm))
        ELSE "UNCLEAR"

\* lines 170-269: _handle_start_hook, _handle_start_story, _handle_start_cta
_handle_start(st, slot) ==
    LET st1 == [st EXCEPT !.active_module = slot]
    IN  IF st[slot] = NoComponent THEN SetComponent(st1, slot, ScriptComponent) ELSE st1

\* lines 369-379: the active component exists
CanFinalize(st) ==
    st.active_module \in {"hook", "story", "cta"} /\ st[st.active_module] # NoComponent

\* lines 365-392
_handle_finalize_component(st) ==
    IF CanFinalize(st)
    THEN Done(SetComponent(st, st.active_module,
                           [st[st.active_module] EXCEPT !.finalized = TRUE]),
              "component_finalized", "")
    ELSE Done(st, "nothing_to_finalize", "")

\* lines 53-86: the reply of process; next_agent is "" when there is none
OrchestratorProcess(st, input, intent_llm, llm) ==
    LET Reply(r, agent) == r @@ [next_agent |-> agent]
        Handle(intent) ==
        IF intent = RAISE THEN Reply(Raised(st), "")
        ELSE IF intent = "START_HOOK"
        THEN Reply(Done(_handle_start(st, "hook"), "start_hook", ""), "hook_specialist")
        ELSE IF intent = "START_STORY"
        THEN Reply(Done(_handle_start(st, "story"), "start_story", ""), "story_architect")
        ELSE IF intent = "START_CTA"
        THEN Reply(Done(_handle_start(st, "cta"), "start_cta", ""), "cta_strategist")
        ELSE IF intent = "REVIEW_SCRIPT" THEN Reply(Done(st, "review_script", ""), "")
        ELSE IF intent = "PROVIDE_CONTEXT"
        THEN Reply(Done([st EXCEPT !.context_documents = Append(@, input)],
                        "context_added", ""), "")
        ELSE IF intent = "ADD_TONE_SAMPLE"
        THEN Reply(Done([st EXCEPT !.user_tone_samples = Append(@, input)],
                        "tone_sample_added", ""), "")
        ELSE IF intent = "REQUEST_FEEDBACK"
        THEN IF llm = RAISE THEN Reply(Raised(st), "")
             ELSE Reply(Done(st, "feedback", llm), "challenger")
        ELSE IF intent = "FINALIZE_COMPONENT"
        THEN Reply(_handle_finalize_component(st), "")
        ELSE Reply(Done(st, "guidance", ""), "")
    IN  Handle(_detect_intent(input, intent_llm))

-----------------------------------------------------------------------------
(* SessionManager.save_state and get_script_text,                           *)
(* src/src/database/session_manager.py:218-280 and 339-381                  *)

\* db.save_component, src/src/database/models.py:159-187: the row written
\* for a component that exists; a new row starts with iterations 0
ComponentRow(row, component) ==
    IF component = NoComponent THEN row
    ELSE [content |-> component.content, metadata |-> component.metadata,
          options |-> component.all_options, finalized |-> component.finalized,
          iterations |-> IF row = NoComponent THEN 0 ELSE row.iterations + 1]

\* lines 264-272
WorkflowState(st) ==
    IF st.story # NoComponent /\ st.story.metadata # EmptyDict
    THEN [k \in DOMAIN st.story.metadata \cap
                {"workflow_mode", "current_act", "acts_content", "video_duration",
                 "enhanced_draft", "awaiting_timing", "mood_handled"}
             |-> st.story.metadata[k]]
    ELSE EmptyDict

\* conversation_history[-50:]
SavedHistoryLength == 50

\* the aliasing of lists does not survive serialisation
Serialised(history) ==
    [i \in 1..Len(history) |->
        [k \in DOMAIN history[i] \ {"aliased"} |-> history[i][k]]]

save_state(rows, st) ==
    [rows EXCEPT
        !.hook = ComponentRow(@, st.hook),
        !.story = ComponentRow(@, st.story),
        !.cta = ComponentRow(@, st.cta),
        !.session =
            [conversation_history |->
                 LET h == Serialised(st.conversation_history)
                 IN  IF Len(h) <= SavedHistoryLength THEN h
                     ELSE SubSeq(h, Len(h) - SavedHistoryLength + 1, Len(h)),
             active_module |-> st.active_module,
             workflow_state |-> WorkflowState(st)]]

\* lines 166-201: a component is restored when its row has content
LoadedComponent(row) ==
    IF row = NoComponent \/ row.content = "" THEN NoComponent
    ELSE [content |-> row.content, finalized |-> row.finalized,
          iterations |-> row.iterations, feedback_history |-> << >>,
          metadata |-> row.metadata, all_options |-> row.options]

\* lines 150-216
load_project_state(rows) ==
    LET Restore(story) ==
            [VideoScriptState(rows.video_duration) EXCEPT
                !.hook = LoadedComponent(rows.hook),
                !.story = IF story # NoComponent /\ rows.session # EmptyDict
                          THEN [story EXCEPT !.metadata = rows.session.workflow_state @@ @]
                          ELSE story,
                !.cta = LoadedComponent(rows.cta),
                !.conversation_history =
                    IF rows.session # EmptyDict THEN rows.session.conversation_history
                    ELSE << >>,
                !.active_module =
                    IF rows.session # EmptyDict THEN rows.session.active_module ELSE "idle"]
    IN  Restore(LoadedComponent(rows.story))

\* the title create_new_project gives the project, without its timestamp
Title == Topic \o " - Tiktok"

\* lines 359-372: the STORY section
StoryParts(story) ==
    IF story = NoComponent THEN << >>
    ELSE IF "acts_content" \in DOMAIN story.metadata
    THEN LET acts == story.metadata["acts_content"]
             ActPart(i) ==
                 LET act_key == "act_" \o ToString(i)
                 IN  IF Get(acts, act_key, "") # ""
                     THEN <<"### Act " \o ToString(i) \o "\n", acts[act_key], "\n">>
                     ELSE << >>
         IN  <<"## STORY\n">> \o ActPart(1) \o ActPart(2) \o ActPart(3)
    ELSE IF story.content # "" THEN <<"## STORY\n", story.content, "\n">>
    ELSE << >>

get_script_text(rows) ==
    JoinLines(
        << "# " \o Title, "Platform: " \o Platform, "Audience: General",
           "Duration: " \o (IF rows.video_duration # "" THEN rows.video_duration
                            ELSE "Not specified"),
           "\n---\n" >>
        \o (IF rows.hook # NoComponent /\ rows.hook.content # ""
            THEN <<"## HOOK\n", rows.hook.content, "\n">> ELSE << >>)
        \o StoryParts(rows.story)
        \o (IF rows.cta # NoComponent /\ rows.cta.content # ""
            THEN <<"## CALL TO ACTION\n", rows.cta.content, "\n">> ELSE << >>))

-----------------------------------------------------------------------------
(* The projects a session starts from, src/main.py:285-402 *)

\* durations a project starts with: one entered at start_new_project, or
\* none for a project row whose video_duration column is NULL
StartDurations == {"45 seconds", ""}

\* a completion with three hooks
ThreeHooks ==
    "Type: Question\nText: \"Why are you tired?\"\nType: Story\nText: \"I slept 4 hours\"\nType: Statistic\nText: \"1 in 3 adults\""

\* the rows left by an earlier session that generated hooks, chose the second
\* and exited: saved after the selection and again on exit
ChosenHookRows(duration) ==
    LET Saved(st) == save_state(save_state(NewProjectRows(duration), st), st)
        Chosen(st) == Saved(_handle_option_selection(st, 2).state)
    IN  Chosen(GenerateHooks(VideoScriptState(duration), "", ThreeHooks).state)

\* start_new_project: a new project, or an existing one that is loaded
StartRows ==
    {NewProjectRows(d) : d \in StartDurations} \cup {ChosenHookRows(d) : d \in StartDurations}

\* the state interaction_loop starts from
InitCli ==
    /\ \E rows \in StartRows :
          /\ state = load_project_state(rows)
          /\ db = rows
    /\ pc = "prompt"
    /\ handler = "none"
    /\ response = "greeting"
    /\ exported = ""
    /\ turn = 0

\* the web application serves nothing
WebIdle ==
    /\ conversations = EmptyDict
    /\ requests = EmptyDict

\* the session is not running: nothing but a parser is exercised
CliIdle ==
    /\ state = VideoScriptState("45 seconds")
    /\ db = NewProjectRows("45 seconds")
    /\ pc = "idle"
    /\ handler = "none"
    /\ response = ""
    /\ exported = ""
    /\ turn = 0

-----------------------------------------------------------------------------
(* Completion texts: what the Text Completion Provider may answer *)

\* most blocks or lines in one completion
MaxChunks == 4

HookChunks ==
    { "HOOK 1: Curiosity\nType: Curiosity Gap\nText: \"What nobody tells you about sleep\"\nVisual: a dark room\nDuration: 5 seconds",
      "HOOK 2:\nText:",
      "- a bullet line that is long enough",
      "short" }

CtaChunks ==
    { "Type: Direct\nPrimary Text: \"Subscribe for more tips\"\nSupporting Text: every week",
      "Type: Soft",
      "Primary Text: \"\"",
      "a plain line of more than twenty characters" }

AdvancedChunks ==
    { "Option 1: Question\n^ Script: \"Ever wondered why mornings feel so hard?\"\n@ Visual: alarm clock\n~% Duration: 5s",
      "Option 2: Curiosity Gap\n^ Script:\n@ Visual: a closed door\n~% Duration: 4s",
      "He said \"this is the one habit that changed my mornings\" twice",
      "1) a numbered line that is long enough" }

FreeChunks == { "", "hello", "* a starred line that is long enough", "Option 3:" }

ChunkFamilies == {HookChunks, CtaChunks, AdvancedChunks, FreeChunks}

Completions ==
    { JoinLines(chunks) :
        chunks \in UNION { [1..n -> F] : n \in 0..MaxChunks, F \in ChunkFamilies } }

-----------------------------------------------------------------------------
(* Specification of the option parsers alone: a completion is drawn and one *)
(* of the three parsers is applied to it.                                   *)

InitParse ==
    /\ completion \in Completions
    /\ parsed = << >>
    /\ parser = "none"
    /\ user_input = ""
    /\ option_selected = None
    /\ CliIdle
    /\ WebIdle

ParseHooks ==
    /\ parser = "none"
    /\ parsed' = _parse_hooks(completion)
    /\ parser' = "hook"
    /\ UNCHANGED <<completion, user_input, option_selected, cliVars, webVars>>

ParseCtas ==
    /\ parser = "none"
    /\ parsed' = _parse_ctas(completion)
    /\ parser' = "cta"
    /\ UNCHANGED <<completion, user_input, option_selected, cliVars, webVars>>

ParseHooksAdvanced ==
    /\ parser = "none"
    /\ parsed' = parse_hooks_advanced(completion)
    /\ parser' = "advanced"
    /\ UNCHANGED <<completion, user_input, option_selected, cliVars, webVars>>

NextParse == ParseHooks \/ ParseCtas \/ ParseHooksAdvanced

SpecParse == InitParse /\ [][NextParse]_vars

-----------------------------------------------------------------------------
(* Completions made of three well-formed blocks, "HOOK N:" blocks in the    *)
(* format of the generate_hooks prompt (hook_specialist.py:28-46) or        *)
(* "Option N:" blocks in the format of hook_parser.py:152-167, each field   *)
(* on a line of its own.                                                    *)

BlockTypes ==
    { <<"Curiosity Gap", "Personal Story", "Statistical Shock">>,
      <<"Problem/Agitation", "question", "Benefit-driven">> }

\* the three blocks of a completion before they are ordered
BaseBlocks(types) ==
    << [type |-> types[1], text |-> "Why are you tired?", visual |-> "a dark room",
        duration |-> "5 seconds"],
       [type |-> types[2], text |-> "I slept 4 hours", visual |-> "a clock",
        duration |-> "6 seconds"],
       [type |-> types[3], text |-> "1 in 3 adults", visual |-> "a chart",
        duration |-> "7 seconds"] >>

Permutations3 ==
    {q \in [1..3 -> 1..3] : \A i, j \in 1..3 : q[i] = q[j] => i = j}

\* three blocks in some order, the script of at most one of them left empty
BlockTriples ==
    { [i \in 1..3 |-> IF i = empty THEN [BaseBlocks(types)[q[i]] EXCEPT !.text = ""]
                      ELSE BaseBlocks(types)[q[i]]] :
        types \in BlockTypes, q \in Permutations3, empty \in 0..3 }

\* the order of the field lines inside a block
HookOrders ==
    << <<"type", "text", "visual", "duration">>,
       <<"visual", "duration", "type", "text">>,
       <<"text", "type", "duration", "visual">> >>

OptionOrders ==
    << <<"text", "visual", "duration">>,
       <<"visual", "duration", "text">>,
       <<"text", "duration", "visual">> >>

Labelled(label, value) == IF value = "" THEN label ELSE label \o " " \o value

Quoted(text, quoted) == IF quoted /\ text # "" THEN QUOTE \o text \o QUOTE ELSE text

HookLine(block, field, quoted) ==
    IF field = "type" THEN Labelled("Type:", block.type)
    ELSE IF field = "text" THEN Labelled("Text:", Quoted(block.text, quoted))
    ELSE IF field = "visual" THEN Labelled("Visual Note:", block.visual)
    ELSE Labelled("Duration:", block.duration)

OptionLine(block, field, quoted) ==
    IF field = "text" THEN Labelled(MEMO \o " Script:", Quoted(block.text, quoted))
    ELSE IF field = "visual" THEN Labelled(CLAPPER \o " Visual:", block.visual)
    ELSE Labelled(STOPWATCH \o " Duration:", block.duration)

RenderBlock(format, order, quoted, block, n) ==
    IF format = "hook"
    THEN JoinLines(<<"HOOK " \o ToString(n) \o ":">>
                   \o [k \in 1..4 |-> HookLine(block, HookOrders[order][k], quoted)])
    ELSE JoinLines(<<"Option " \o ToString(n) \o ": " \o block.type>>
                   \o [k \in 1..3 |-> OptionLine(block, OptionOrders[order][k], quoted)])

\* the blocks separated by `sep` line feeds, followed by `tail`
RenderBlocks(format, order, quoted, sep, tail, blocks) ==
    RenderBlock(format, order, quoted, blocks[1], 1) \o sep
        \o RenderBlock(format, order, quoted, blocks[2], 2) \o sep
        \o RenderBlock(format, order, quoted, blocks[3], 3) \o tail

BlockSeparators == {"\n", "\n\n"}
BlockTails == {"", "\n\nWhich one do you want?"}

\* every completion of three blocks with the blocks it was written from
WellFormed ==
    { [text |-> RenderBlocks(format, order, quoted, sep, tail, blocks),
       format |-> format, blocks |-> blocks] :
        format \in {"hook", "option"}, order \in 1..3, quoted \in BOOLEAN,
        sep \in BlockSeparators, tail \in BlockTails, blocks \in BlockTriples }

-----------------------------------------------------------------------------
(* Specification of the parsers on well-formed blocks: a completion of      *)
(* three blocks is drawn and _parse_hooks, extract_hook_metadata or         *)
(* parse_hooks_advanced is applied to it.                                   *)

InitBlocks ==
    /\ completion \in {w.text : w \in WellFormed}
    /\ parsed = << >>
    /\ parser = "none"
    /\ user_input = ""
    /\ option_selected = None
    /\ CliIdle
    /\ WebIdle

ExtractHookMetadata ==
    /\ parser = "none"
    /\ parsed' = extract_hook_metadata(completion)
    /\ parser' = "metadata"
    /\ UNCHANGED <<completion, user_input, option_selected, cliVars, webVars>>

NextBlocks == ParseHooks \/ ExtractHookMetadata \/ ParseHooksAdvanced

SpecBlocks == InitBlocks /\ [][NextBlocks]_vars

-----------------------------------------------------------------------------
(* Specification of the act durations: a project whose timing answer has    *)
(* been stored is in act development at some act, and the act development   *)
(* prompt of that act is written.                                           *)

\* numbers a timing answer is written with
TimingNumbers == {1, 2, 3, 5, 7, 10, 15, 30, 45, 60}

\* answers to the timing question, lines 64-65 of ask_about_timing
TimingAnswers ==
    {""} \cup {ToString(a) : a \in TimingNumbers}
         \cup {ToString(a) \o " " \o unit : a \in TimingNumbers, unit \in {"seconds", "minutes"}}
         \cup {ToString(a) \o "-" \o ToString(b) \o " " \o unit :
                  a \in {1, 2, 5, 10, 30}, b \in {2, 3, 7, 15, 60}, unit \in {"seconds", "minutes"}}

\* the state _generate_story leaves once the timing answer is stored, acts
\* before `act` passed by move_to_next_act
ActDevelopmentState(answer, act) ==
    LET asked == [VideoScriptState("") EXCEPT
                     !.story = [ScriptComponent EXCEPT
                                   !.metadata = Put(EmptyDict, "awaiting_timing", TRUE)]]
    IN  [handle_timing_preference(asked, answer) EXCEPT
            !.story.metadata = Put(Put(Put(@, "workflow_mode", "act_development"),
                                       "current_act", act), "acts_content", EmptyDict)]

InitActs ==
    /\ \E answer \in TimingAnswers, act \in 1..3 : state = ActDevelopmentState(answer, act)
    /\ db = NewProjectRows("")
    /\ pc = "idle"
    /\ handler = "none"
    /\ response = ""
    /\ exported = ""
    /\ turn = 0
    /\ user_input = ""
    /\ option_selected = None
    /\ completion = ""
    /\ parsed = << >>
    /\ parser = "none"
    /\ WebIdle

\* create_act_development_prompt, lines 117-147: "Act N Focus: <duration> of content"
ActFocus ==
    /\ handler = "none"
    /\ response' = calculate_act_duration(
                       Get(state.story.metadata, "video_duration", "2-3 minutes"),
                       Get(state.story.metadata, "current_act", 1))
    /\ handler' = "act_focus"
    /\ UNCHANGED <<state, db, pc, exported, turn, user_input, option_selected,
                   completion, parsed, parser, webVars>>

NextActs == ActFocus

SpecActs == InitActs /\ [][NextActs]_vars

-----------------------------------------------------------------------------
(* Selection inputs: what a user may type at the prompt when choosing *)

\* most blanks typed before or after an input
SelPadMax == 2

NumberedForms ==
    { "option ", "use option ", "choose option ", "select option ",
      "go with option ", "option number ", "number ", "#" }

SelectionWords(n) ==
    IF n = 1 THEN {"first", "one"}
    ELSE IF n = 2 THEN {"second", "two"}
    ELSE {"third", "three"}

Capitalize(s) ==
    IF s = "" THEN ""
    ELSE IF IsLower(At(s, 1))
         THEN At(UpperChars, CHOOSE i \in 1..26 : At(LowerChars, i) = At(s, 1)) \o Drop(s, 1)
         ELSE s

LeadIns == {"", "ok ", "i will "}
LeadOuts == {"", " please", "!"}

\* the bodies typed: numbered forms with any digit, bare digits, number
\* words alone and inside short and long phrases, and other text
SelBodies ==
    { li \o f \o At(DigitChars, d) \o lo :
         li \in LeadIns, f \in NumberedForms \cup {"let's use option "},
         d \in 1..6, lo \in LeadOuts }
    \cup { At(DigitChars, d) : d \in 1..10 }
    \cup { li \o w \o lo : li \in {"", "the "},
                            w \in SelectionWords(1) \cup SelectionWords(2) \cup SelectionWords(3),
                            lo \in {"", " one", " option", " please"} }
    \cup { "alone", "twofold", "option", "option two", "hooks", "more",
           "yes the first one is good", "option 5 or option 2", "#7 and #1",
           "i stand alone on the second floor", "12", "option 23" }

Filler == "lorem ipsum dolor sit amet consectetur adip "

ExcludedPrefixes == {"draft:", "draft ", "enhance", "research:", "example:"}

SelInputs ==
    { Repeat(" ", a) \o b \o Repeat(" ", z) : a \in 0..SelPadMax, z \in 0..SelPadMax, b \in SelBodies }
    \cup { Capitalize(b) : b \in SelBodies }
    \cup { p \o " " \o b : p \in ExcludedPrefixes \cup {"Draft:", "ENHANCE", "drafting"},
                           b \in {"option 2", "2", "second", "use option 1", "#3"} }
    \cup { Filler \o b : b \in {"option 2", "#3", "one", "or 1"} }
    \cup { b \o Repeat(" ", MaxSelectionLength - Len(b) + k) : b \in {"option 2", "3"}, k \in 0..1 }

-----------------------------------------------------------------------------
(* Specification of the selection parser alone: an input is drawn and       *)
(* _parse_option_selection is applied to it.                                *)

InitSel ==
    /\ user_input \in SelInputs
    /\ option_selected = None
    /\ completion = ""
    /\ parsed = << >>
    /\ parser = "none"
    /\ CliIdle
    /\ WebIdle

ParseSelection ==
    /\ parser = "none"
    /\ option_selected' = _parse_option_selection(user_input)
    /\ parser' = "selection"
    /\ UNCHANGED <<user_input, completion, parsed, cliVars, webVars>>

NextSel == ParseSelection

SpecSel == InitSel /\ [][NextSel]_vars

-----------------------------------------------------------------------------
(* What the user may type and what the Text Completion Provider may answer *)

Inputs ==
    { "exit", "help", "save", "export", "hook", "story", "1", "2",
      "cta", "optimize", "research", "edit hook", "draft: cold open", "next act",
      "more", "custom:", "opening", "finalize", "45 seconds", "show script",
      "use enhanced" }

\* what the nested prompt of _edit_component may receive
EditInputs == {"A sharper hook", "cancel"}

\* a raise, a completion without HOOK headers (three hooks are built from
\* its long lines) and a structured one whose second hook has a blank Text
HookOutcomes ==
    { RAISE, ThreeHooks,
      "HOOK 1:\nText: Why?\nHOOK 2:\nText:\nHOOK 3:\nText: Sleep now" }

CtaOutcomes ==
    { RAISE,
      "Type: Direct\nPrimary Text: \"Subscribe\"\nType: Soft\nPrimary Text: \"Save this\"" }

StrategyOutcomes == {RAISE, "Soft ask early, main ask last"}

StoryOutcomes == {RAISE, "Act 1: Setup\n- the alarm rings"}

FreeOutcomes == {RAISE, "Looks good"}

IntentOutcomes == {RAISE, "provide_context", " request_feedback\n"}

\* most inputs read in one session
MaxTurns == 3

\* the keywords that announce custom content, entered without any content
BareKeywords == {"custom", "my own", "use this"}

\* what a user may enter while the acts are developed
DevInputs ==
    { "next act", "keep original", "use enhanced", "enhance", "research: naps",
      "give me example", "Sleep is a skill", "show script" }

\* what the story architect may receive during act development: a raise, a
\* text and a blank completion
DevOutcomes == {RAISE, "Looks good", " "}

\* most inputs read while the acts are developed
MaxDevTurns == 5

\* the inputs of lines 539 and 544 and free text that no earlier branch names
SupersededInputs ==
    { "more", "more options", "different", "other", "alternative",
      "custom: cold open", "my own intro", "use this line", "opening",
      "Sleep is a skill" }

\* the numbers _display_all_hooks offers beyond those of Inputs
ShownNumbers == {"3", "4", "5", "6"}

\* every input a session may read
AllInputs ==
    Inputs \cup DevInputs \cup BareKeywords \cup SupersededInputs \cup ShownNumbers

\* user_input.lower() and _parse_option_selection(user_input) of every input,
\* evaluated once
LowerOf == [input \in AllInputs |-> Lower(input)]
SelectionOf == [input \in AllInputs |-> _parse_option_selection(input)]

-----------------------------------------------------------------------------
(* VideoScriptCLI.interaction_loop, src/main.py:404-566 *)

\* the loop with the test of line 539 ahead of the test of line 527
Route_MoreFirst(st, input) ==
    LET low == LowerOf[input]
        h == st.conversation_history
        StartsAny(words) == \E w \in words : StartsWith(low, w)
    IN  IF low \in {"exit", "help", "status", "save", "export", "list"} THEN low
        ELSE IF low \in {"hook", "hooks"} THEN "hooks"
        ELSE IF low \in {"story", "narrative", "structure"} THEN "story"
        ELSE IF h # << >> /\ h[Len(h)].type = "awaiting_mood_response" THEN "mood"
        ELSE IF st.story # NoComponent /\ Get(st.story.metadata, "awaiting_timing", FALSE)
        THEN "timing"
        ELSE IF SelectionOf[input] # None THEN "select"
        ELSE IF last_cta_generation(st) /\ \E w \in CtaFollowupWords : Contains(low, w)
        THEN "cta_followup"
        ELSE IF low \in {"cta", "call to action", "action"} THEN "cta"
        ELSE IF low \in {"research", "verify", "fact-check", "fact check"} THEN "research"
        ELSE IF low \in {"humanize", "style", "tone", "voice"} THEN "style"
        ELSE IF low \in {"critique", "review", "challenge", "feedback"} THEN "critique"
        ELSE IF StartsAny({"edit hook", "edit story", "edit cta"}) THEN "edit"
        ELSE IF low \in {"more", "more options", "different", "other", "alternative"}
        THEN "more"
        ELSE IF /\ st.story # NoComponent
                /\ Get(st.story.metadata, "workflow_mode", "") = "act_development"
        THEN "act_development"
        ELSE IF StartsAny({"custom", "my own", "use this"}) THEN "custom"
        ELSE "orchestrator"

\* lines 423-565: the branch of the loop that serves an input
Route(st, input) ==
    LET low == LowerOf[input]
        h == st.conversation_history
        StartsAny(words) == \E w \in words : StartsWith(low, w)
    IN  IF low \in {"exit", "help", "status", "save", "export", "list"} THEN low
        ELSE IF low \in {"hook", "hooks"} THEN "hooks"
        ELSE IF low \in {"story", "narrative", "structure"} THEN "story"
        ELSE IF h # << >> /\ h[Len(h)].type = "awaiting_mood_response" THEN "mood"
        ELSE IF st.story # NoComponent /\ Get(st.story.metadata, "awaiting_timing", FALSE)
        THEN "timing"
        ELSE IF SelectionOf[input] # None THEN "select"
        ELSE IF last_cta_generation(st) /\ \E w \in CtaFollowupWords : Contains(low, w)
        THEN "cta_followup"
        ELSE IF low \in {"cta", "call to action", "action"} THEN "cta"
        ELSE IF low \in {"research", "verify", "fact-check", "fact check"} THEN "research"
        ELSE IF low \in {"humanize", "style", "tone", "voice"} THEN "style"
        ELSE IF low \in {"critique", "review", "challenge", "feedback"} THEN "critique"
        ELSE IF StartsAny({"edit hook", "edit story", "edit cta"}) THEN "edit"
        ELSE IF /\ st.story # NoComponent
                /\ Get(st.story.metadata, "workflow_mode", "") = "act_development"
        THEN "act_development"
        ELSE IF low \in {"more", "more options", "different", "other", "alternative"}
        THEN "more"
        ELSE IF StartsAny({"custom", "my own", "use this"}) THEN "custom"
        ELSE "orchestrator"

\* lines 944-978
_generate_more_options(st, llm1, llm2) ==
    LET k == LastEvent(st.conversation_history, OptionEvents)
        recent_type == IF k = 0 THEN "none" ELSE st.conversation_history[k].type
    IN  IF recent_type = "hooks_generated" THEN GenerateHooks(st, "more", llm1)
        ELSE IF recent_type = "ctas_generated" THEN _generate_cta(st, llm1, llm2)
        ELSE IF recent_type = "stories_generated" THEN _generate_story(st, "", FALSE, llm1)
        ELSE Done(st, "generate_first", "")

\* lines 464-473 without the call of _generate_story
TimingTurn_Stored(st, input, llm) ==
    Done([handle_timing_preference(st, input) EXCEPT
             !.story.metadata = Put(@, "mood_handled", TRUE)],
         "timing_stored", "")

\* lines 464-473
TimingTurn(st, input, llm) ==
    _generate_story(
        [handle_timing_preference(st, input) EXCEPT
            !.story.metadata = Put(@, "mood_handled", TRUE)],
        "", TRUE, llm)

\* lines 555-561: the reply r of orchestrator.process, then the agent it names
OrchestratorTurn(r, llm1, llm2) ==
    IF r.raised THEN Raised(r.state)
    ELSE IF r.next_agent = "hook_specialist" THEN GenerateHooks(r.state, "", llm1)
    ELSE IF r.next_agent = "story_architect" THEN _generate_story(r.state, "", FALSE, llm1)
    ELSE IF r.next_agent = "cta_strategist" THEN _generate_cta(r.state, llm1, llm2)
    ELSE Done(r.state, r.response, r.completion)

-----------------------------------------------------------------------------
(* The session: one action per branch of interaction_loop *)

Init ==
    /\ InitCli
    /\ user_input = ""
    /\ option_selected = None
    /\ completion = ""
    /\ parsed = << >>
    /\ parser = "none"
    /\ WebIdle

\* Prompt.ask returns input and the loop takes the branch `route`
Reads(input, route) ==
    /\ pc = "prompt"
    /\ turn < MaxTurns
    /\ Route(state, input) = route

\* The end of a turn served by a handler that returned r. An exception that
\* leaves the handler is caught by the try of lines 549-566 when `caught`,
\* otherwise it leaves the loop and reaches main's except (lines 1271-1280).
\* `saves` tells whether the branch goes on to save_state.
EndTurn(input, route, reply, caught, saves) ==
    \E r \in {reply} :
        /\ state' = r.state
        /\ pc' = IF r.raised /\ ~caught THEN "fatal" ELSE "prompt"
        /\ response' = IF ~r.raised THEN r.response
                       ELSE IF caught THEN "error" ELSE "fatal_error"
        /\ db' = IF saves /\ ~r.raised THEN save_state(db, r.state) ELSE db
        /\ handler' = route
        /\ option_selected' = IF route = "select" THEN SelectionOf[input] ELSE None
        /\ completion' = r.completion
        /\ turn' = turn + 1
        /\ UNCHANGED <<exported, user_input, parsed, parser, webVars>>

\* lines 423-428
Exit ==
    \E input \in Inputs :
        /\ Reads(input, "exit")
        /\ db' = save_state(db, state)
        /\ pc' = "exited"
        /\ response' = "saved"
        /\ handler' = "exit"
        /\ option_selected' = None
        /\ turn' = turn + 1
        /\ UNCHANGED <<state, exported, completion, user_input, parsed, parser, webVars>>

\* lines 429-434 and 445-448: _show_help, _show_status, _list_projects
ShowInfo ==
    \E input \in Inputs :
        \E route \in {"help", "status", "list"} :
            /\ Reads(input, route)
            /\ EndTurn(input, route, Done(state, route, ""), FALSE, FALSE)

\* lines 435-440
Save ==
    \E input \in Inputs :
        /\ Reads(input, "save")
        /\ EndTurn(input, "save", Done(state, "saved", ""), FALSE, TRUE)

\* lines 441-444 and _export_script, lines 1114-1130
Export ==
    \E input \in Inputs :
        /\ Reads(input, "export")
        /\ exported' = get_script_text(db)
        /\ response' = "exported"
        /\ handler' = "export"
        /\ option_selected' = None
        /\ turn' = turn + 1
        /\ UNCHANGED <<state, db, pc, completion, user_input, parsed, parser, webVars>>

\* lines 449-452
Hooks ==
    \E input \in Inputs :
        /\ Reads(input, "hooks")
        /\ \E llm \in HookOutcomes :
            EndTurn(input, "hooks", GenerateHooks(state, "", llm), FALSE, FALSE)

\* lines 453-456
Story ==
    \E input \in Inputs :
        /\ Reads(input, "story")
        /\ \E llm \in StoryOutcomes :
            EndTurn(input, "story", _generate_story(state, "", FALSE, llm), FALSE, FALSE)

\* lines 458-462
MoodResponse ==
    \E input \in Inputs :
        /\ Reads(input, "mood")
        /\ \E llm \in StoryOutcomes :
            EndTurn(input, "mood", _generate_story(state, input, FALSE, llm), FALSE, FALSE)

\* lines 464-473
Timing ==
    \E input \in Inputs :
        /\ Reads(input, "timing")
        /\ \E llm \in StoryOutcomes :
            EndTurn(input, "timing", TimingTurn(state, input, llm), FALSE, FALSE)

\* lines 477-481
Select ==
    \E input \in Inputs :
        /\ Reads(input, "select")
        /\ EndTurn(input, "select",
                   _handle_option_selection(state, SelectionOf[input]),
                   FALSE, TRUE)

\* lines 483-494
CtaFollowup ==
    \E input \in Inputs :
        /\ Reads(input, "cta_followup")
        /\ \E llm1 \in CtaOutcomes, llm2 \in StrategyOutcomes :
            EndTurn(input, "cta_followup", _handle_cta_followup(state, input, llm1, llm2),
                   FALSE, FALSE)

\* lines 497-500
Cta ==
    \E input \in Inputs :
        /\ Reads(input, "cta")
        /\ \E llm1 \in CtaOutcomes, llm2 \in StrategyOutcomes :
            EndTurn(input, "cta", _generate_cta(state, llm1, llm2), FALSE, FALSE)

\* lines 501-512: _research_analysis, _style_content, _challenge_content
Advise ==
    \E input \in Inputs, route \in {"research", "style", "critique"} :
        /\ Reads(input, route)
        /\ \E llm \in FreeOutcomes :
              EndTurn(input, route, AdviseOnScript(state, llm), FALSE, FALSE)

\* lines 513-524; _edit_component saves by itself
Edit ==
    \E input \in Inputs :
        /\ Reads(input, "edit")
        /\ \E new_content \in EditInputs :
              LET low == LowerOf[input]
                  component_type == IF StartsWith(low, "edit hook") THEN "hook"
                                    ELSE IF StartsWith(low, "edit story") THEN "story"
                                    ELSE "cta"
                  r == _edit_component(state, component_type, new_content)
              IN  EndTurn(input, "edit", r, FALSE, r.saved)

\* lines 526-536
ActDevelopment ==
    \E input \in Inputs :
        /\ Reads(input, "act_development")
        /\ \E llm \in FreeOutcomes :
            EndTurn(input, "act_development", process_act_development(state, input, llm),
                   FALSE, TRUE)

\* the completions the agent serving the most recent options may receive
MoreOutcomes(st) ==
    LET k == LastEvent(st.conversation_history, OptionEvents)
    IN  IF k = 0 THEN FreeOutcomes
        ELSE IF st.conversation_history[k].type = "hooks_generated" THEN HookOutcomes
        ELSE IF st.conversation_history[k].type = "ctas_generated" THEN CtaOutcomes
        ELSE StoryOutcomes

\* lines 538-541
More ==
    \E input \in Inputs :
        /\ Reads(input, "more")
        /\ \E llm1 \in MoreOutcomes(state), llm2 \in StrategyOutcomes :
              EndTurn(input, "more", _generate_more_options(state, llm1, llm2), FALSE, FALSE)

\* lines 543-546
Custom ==
    \E input \in Inputs :
        /\ Reads(input, "custom")
        /\ EndTurn(input, "custom", _handle_custom_content(state, input), FALSE, FALSE)

\* the completions the agent named by the orchestrator may receive
AgentOutcomes(agent) ==
    IF agent = "hook_specialist" THEN HookOutcomes
    ELSE IF agent = "story_architect" THEN StoryOutcomes
    ELSE IF agent = "cta_strategist" THEN CtaOutcomes
    ELSE {""}

\* the completions _detect_intent may receive: none is requested when a
\* pattern or a keyword decides
IntentCompletions(input) ==
    IF _detect_intent(input, RAISE) = RAISE THEN IntentOutcomes ELSE {""}

\* the second completion is requested by the CTA strategist only
SecondOutcomes(agent) == IF agent = "cta_strategist" THEN StrategyOutcomes ELSE {""}

\* lines 548-566
Orchestrator ==
    \E input \in Inputs :
        /\ Reads(input, "orchestrator")
        /\ \E intent_llm \in IntentCompletions(input), llm \in FreeOutcomes :
            \E r \in {OrchestratorProcess(state, input, intent_llm, llm)} :
                \E llm1 \in AgentOutcomes(r.next_agent),
                   llm2 \in SecondOutcomes(r.next_agent) :
                    EndTurn(input, "orchestrator", OrchestratorTurn(r, llm1, llm2),
                            TRUE, FALSE)

Next ==
    \/ Exit \/ ShowInfo \/ Save \/ Export
    \/ Hooks \/ Story \/ MoodResponse \/ Timing
    \/ Select \/ CtaFollowup \/ Cta \/ Advise \/ Edit
    \/ ActDevelopment \/ More \/ Custom \/ Orchestrator

Spec == Init /\ [][Next]_vars

-----------------------------------------------------------------------------
(* The session once the story duration is chosen: src/main.py:464-473 has   *)
(* started act development, lines 526-536 serve the inputs                   *)

\* the state the timing answer leaves: the story completion is received and
\* act development starts at act 1
TimingAsked ==
    [VideoScriptState("") EXCEPT
        !.story = [ScriptComponent EXCEPT
                      !.metadata = Put(EmptyDict, "awaiting_timing", TRUE)]]

ActOneState == TimingTurn(TimingAsked, "45 seconds", "Act 1: Setup\n- the alarm rings").state

InitDev ==
    /\ state = ActOneState
    /\ db = NewProjectRows("")
    /\ pc = "prompt"
    /\ handler = "timing"
    /\ response = "greeting"
    /\ exported = ""
    /\ turn = 0
    /\ user_input = ""
    /\ option_selected = None
    /\ completion = ""
    /\ parsed = << >>
    /\ parser = "none"
    /\ WebIdle

\* lines 526-536
ActSession ==
    \E input \in DevInputs :
        /\ pc = "prompt"
        /\ turn < MaxDevTurns
        /\ Route(state, input) = "act_development"
        /\ \E llm \in DevOutcomes :
            EndTurn(input, "act_development", process_act_development(state, input, llm),
                   FALSE, TRUE)

NextDev == ActSession

SpecDev == InitDev /\ [][NextDev]_vars

-----------------------------------------------------------------------------
(* The web application: ConversationManager and process_conversation,       *)
(* src/web_app.py:196-230 and 380-745. "" stands for None.                  *)

\* lines 202-218: the state a conversation is created with
NewConversation ==
    [state |-> "initial", video_state |-> NoComponent, topic |-> "", platform |-> "",
     audience |-> "", duration |-> "", hooks |-> << >>, selected_hook |-> "",
     story |-> "", ctas |-> << >>, selected_cta |-> "", awaiting_selection |-> "",
     hook_generation_count |-> 0]

\* lines 202-218: the states after get_state(conversation_id)
get_state(states, conversation_id) ==
    IF conversation_id \in DOMAIN states THEN states
    ELSE Put(states, conversation_id, NewConversation)

\* a variant of update_state that writes the updates into every entry
update_state_Shared(states, conversation_id, updates) ==
    [c \in DOMAIN states |-> updates @@ states[c]]

\* lines 220-222: state.update(updates)
update_state(states, conversation_id, updates) ==
    [get_state(states, conversation_id) EXCEPT ![conversation_id] = updates @@ @]

\* lines 716-732
parse_duration(message) ==
    LET text == Lower(message)
        runs == {p \in 1..Len(text) :
                    /\ IsDigit(At(text, p)) /\ ~IsDigit(At(text, p - 1))
                    /\ At(text, SkipSpaces(text, SkipDigits(text, p))) \in {"s", "m"}}
        Unit(p) == At(text, SkipSpaces(text, SkipDigits(text, p)))
        Number(p) == Slice(text, p, SkipDigits(text, p))
        Matched(p) == Number(p) \o (IF Unit(p) = "s" THEN " seconds" ELSE " minutes")
        stripped == Strip(text)
    IN  IF runs # {} THEN Matched(CHOOSE p \in runs : \A q \in runs : p <= q)
        ELSE IF stripped # "" /\ SkipDigits(stripped, 1) = Len(stripped) + 1
        THEN stripped \o " minutes"
        ELSE "2 minutes"

\* lines 734-745; "" when no action is recognised
parse_action(message) ==
    LET text == Lower(message)
        Mentions(words) == \E w \in words : Contains(text, w)
    IN  IF Mentions({"hook", "opening", "start"}) THEN "hooks"
        ELSE IF Mentions({"story", "narrative", "structure"}) THEN "story"
        ELSE IF Mentions({"cta", "call", "action"}) THEN "cta"
        ELSE IF Mentions({"full", "complete", "entire"}) THEN "full"
        ELSE ""

\* int(text): blanks around, a sign, digits with single underscores between
IntOf(text) ==
    LET t == Strip(text)
        signed == StartsWith(t, "-") \/ StartsWith(t, "+")
        body == IF signed THEN Drop(t, 1) ELSE t
        valid == /\ body # ""
                 /\ \A i \in 1..Len(body) : IsDigit(At(body, i)) \/ At(body, i) = "_"
                 /\ IsDigit(At(body, 1)) /\ IsDigit(At(body, Len(body)))
                 /\ ~Contains(body, "__")
        magnitude == DigitsValue(Replace(body, "_", ""), 0)
    IN  [valid |-> valid,
         value |-> IF ~valid THEN 0 ELSE IF StartsWith(t, "-") THEN 0 - magnitude
                   ELSE magnitude]

\* seq[index] of a list: the position counted from 1, 0 for an IndexError
ListPosition(seq, index) ==
    IF index >= 0 /\ index < Len(seq) THEN index + 1
    ELSE IF index < 0 /\ index >= 0 - Len(seq) THEN Len(seq) + index + 1
    ELSE 0

\* lines 600-603 and 704-707: the values of the buttons offered for the hooks
HookButtons(hooks) == [i \in 1..Len(hooks) |-> ToString(i - 1)]

\* what process_conversation returns, and whether it stopped at the request
\* to the agent (line 581)
Answer(states, content, options) ==
    [states |-> states, content |-> content, options |-> options, error |-> FALSE,
     agent |-> FALSE]

\* the sparkles emoji of line 689
SPARKLES == "*"

\* lines 672-714
generate_template_hooks(states, conversation_id) ==
    LET conv == states[conversation_id]
        hooks ==
            IF conv.platform = "youtube"
            THEN <<"What if I told you that " \o conv.topic \o " could change everything?",
                   "Most people think " \o conv.topic \o " is complicated, but here's the truth...",
                   "Stop what you're doing - this " \o conv.topic \o " hack will blow your mind!">>
            ELSE IF conv.platform = "tiktok"
            THEN <<"POV: You just discovered the secret to " \o conv.topic,
                   "Wait for it... " \o conv.topic \o " edition!",
                   "Nobody talks about this " \o conv.topic \o " trick...">>
            ELSE IF conv.platform = "instagram"
            THEN <<"Save this before it's gone! " \o conv.topic \o " secrets revealed",
                   "You've been doing " \o conv.topic \o " wrong this whole time",
                   "The " \o conv.topic \o " tip that changed my life " \o SPARKLES>>
            ELSE <<"Here's what nobody tells you about " \o conv.topic,
                   "The truth about " \o conv.topic \o " might surprise you",
                   "Master " \o conv.topic \o " in just " \o conv.duration>>
    IN  Answer(update_state(states, conversation_id,
                            [hooks |-> hooks, state |-> "hooks_generated",
                             awaiting_selection |-> "hook"]),
               "template_hooks", HookButtons(hooks))

\* lines 558-581: the hooks are requested from the main menu
HooksRequested(states, conversation_id) ==
    IF states[conversation_id].video_state # NoComponent
    THEN [Answer(update_state(states, conversation_id, [state |-> "generating_hooks"]),
                 "", << >>) EXCEPT !.agent = TRUE]
    ELSE generate_template_hooks(states, conversation_id)

\* lines 581-625: the agent has answered with llm, or raised
HooksAnswered(states, conversation_id, llm) ==
    LET Parsed(hooks) ==
            IF hooks # << >>
            THEN Answer(update_state(states, conversation_id,
                                     [hooks |-> hooks, state |-> "hooks_generated",
                                      awaiting_selection |-> "hook"]),
                        "hook_options", HookButtons(hooks) \o <<"more_hooks">>)
            ELSE generate_template_hooks(states, conversation_id)
        Advanced(parsed_hooks) ==
            IF parsed_hooks = << >> THEN Parsed(Scripts(extract_hook_metadata(llm), 1))
            ELSE Parsed(parsed_hooks)
    IN  IF llm = RAISE
        THEN [Answer(states, "", << >>) EXCEPT !.error = TRUE]
        ELSE Advanced(parse_hooks_advanced(llm))

\* lines 491-498
duration_suggestions(platform) ==
    IF platform = "tiktok" THEN <<"15 seconds", "30 seconds", "60 seconds">>
    ELSE IF platform = "instagram" THEN <<"30 seconds", "60 seconds", "90 seconds">>
    ELSE IF platform = "youtube" THEN <<"3 minutes", "5 minutes", "10 minutes">>
    ELSE <<"1 minute", "3 minutes", "5 minutes">>

WebHelp == {"help", "/help", "commands", "/commands"}

\* lines 629-664: option_selected is set among the hooks
HookSelection(states, conversation_id, option) ==
    LET conv == states[conversation_id]
        hook_index == IntOf(option)
        position == ListPosition(conv.hooks, hook_index.value)
    IN  IF option = "more_hooks"
        THEN HooksRequested(
                 update_state(states, conversation_id,
                              [state |-> "main_menu",
                               hook_generation_count |-> conv.hook_generation_count + 1]),
                 conversation_id)
        ELSE IF hook_index.valid /\ position # 0
        THEN Answer(update_state(states, conversation_id,
                                 [selected_hook |-> conv.hooks[position],
                                  state |-> "main_menu", awaiting_selection |-> ""]),
                    "hook_selected", <<"story", "cta", "full">>)
        ELSE Answer(states, "invalid_selection", HookButtons(conv.hooks) \o <<"more_hooks">>)

\* process_conversation, lines 380-670, to its return or to the request to the
\* agent; current_state is the state read at line 383
Process(states, conversation_id, current_state, message, option) ==
    LET conv == states[conversation_id]
        Update(updates) == update_state(states, conversation_id, updates)
        Default == Answer(states, "default", << >>)
    IN  IF message # "" /\ Strip(Lower(message)) \in WebHelp
        THEN Answer(states, "help", <<"start", "examples", "tips">>)
        ELSE IF option = "start"
        THEN Answer(Update([state |-> "awaiting_topic"]), "ask_topic", << >>)
        ELSE IF current_state = "initial"
        THEN Answer(states, "welcome", <<"start", "help">>)
        ELSE IF current_state = "awaiting_topic"
        THEN Answer(Update([topic |-> message, state |-> "awaiting_platform"]),
                    "ask_platform", <<"youtube", "tiktok", "instagram", "general">>)
        ELSE IF current_state = "awaiting_platform"
        THEN Answer(Update([platform |-> IF option # "" THEN option
                                         ELSE Lower(message),
                            state |-> "awaiting_audience"]),
                    "ask_audience", << >>)
        ELSE IF current_state = "awaiting_audience"
        THEN Answer(Update([audience |-> message, state |-> "awaiting_duration"]),
                    "ask_duration", duration_suggestions(conv.platform) \o <<"custom">>)
        ELSE IF current_state = "awaiting_duration"
        THEN LET duration == IF option # "" /\ option # "custom"
                             THEN option ELSE parse_duration(message)
             IN  Answer(Update([duration |-> duration,
                                video_state |-> [topic |-> conv.topic,
                                                 platform |-> conv.platform,
                                                 target_audience |-> conv.audience,
                                                 video_duration |-> duration],
                                state |-> "main_menu"]),
                        "setup_complete", <<"hooks", "story", "cta", "full">>)
        ELSE IF current_state = "main_menu"
        THEN IF \/ (IF option # "" THEN option
                    ELSE parse_action(message)) = "hooks"
                \/ (message # "" /\ Lower(message) = "hooks")
             THEN HooksRequested(states, conversation_id)
             ELSE Default
        ELSE IF current_state = "hooks_generated" /\ conv.awaiting_selection = "hook"
        THEN IF option # ""
             THEN HookSelection(states, conversation_id, option)
             ELSE Default
        ELSE Default


-----------------------------------------------------------------------------
(* chat, src/web_app.py:283-378, served by the threads of app.run(...,      *)
(* threaded=True), lines 769-784                                            *)

\* threads of the web server that serve requests at the same time
WebThreads == 2

\* most requests one thread serves
MaxRequests == 1

Threads == 1..WebThreads

ConversationIds == {"c1", "c2"}

WebMessages == {"", "help", "hooks", "2"}

WebOptions == {"", "start", "hooks", "1", "more_hooks"}

\* what the hook specialist may answer to the request of line 581
WebOutcomes ==
    { RAISE, "no hooks here",
      "1. Why are you always tired in the morning?\n2. I slept four hours a night for a year" }

\* a thread that serves no request
IdleThread ==
    [pc |-> "idle", conversation_id |-> "", message |-> "", option |-> "",
     current_state |-> "", content |-> "", error |-> FALSE, shown_state |-> "", served |-> 0]

\* a conversation whose project is set up (lines 503-535), and one whose
\* hooks were generated (lines 590-594)
MainMenuConversation ==
    [NewConversation EXCEPT
        !.state = "main_menu", !.topic = Topic, !.platform = Platform,
        !.audience = "night owls", !.duration = "45 seconds",
        !.video_state = [topic |-> Topic, platform |-> Platform,
                         target_audience |-> "night owls", video_duration |-> "45 seconds"]]

HooksConversation(hooks) ==
    [MainMenuConversation EXCEPT
        !.state = "hooks_generated", !.hooks = hooks, !.awaiting_selection = "hook"]

StartConversations ==
    { EmptyDict,
      [c \in {"c1"} |-> MainMenuConversation],
      [c \in {"c1"} |-> HooksConversation(<<"Why are you always tired in the morning?",
                                            "I slept four hours a night for a year">>)] }

InitWeb ==
    /\ conversations \in StartConversations
    /\ requests = [t \in Threads |-> IdleThread]
    /\ user_input = ""
    /\ option_selected = None
    /\ completion = ""
    /\ parsed = << >>
    /\ parser = "none"
    /\ CliIdle

WebUnchanged == UNCHANGED <<cliVars, user_input, option_selected, completion, parsed, parser>>

\* lines 283-312: the request is read and get_state returns the state of its
\* conversation
Receive(t) ==
    /\ requests[t].pc \in {"idle", "done"}
    /\ requests[t].served < MaxRequests
    /\ \E conversation_id \in ConversationIds, message \in WebMessages, option \in WebOptions :
          /\ conversations' = get_state(conversations, conversation_id)
          /\ requests' = [requests EXCEPT ![t] =
                             [IdleThread EXCEPT
                                 !.pc = "received", !.conversation_id = conversation_id,
                                 !.message = message, !.option = option,
                                 !.served = requests[t].served + 1]]
    /\ WebUnchanged

\* line 383: current_state = state['state']
Enter(t) ==
    /\ requests[t].pc = "received"
    /\ requests' = [requests EXCEPT
                       ![t].pc = "entered",
                       ![t].current_state = conversations[requests[t].conversation_id].state]
    /\ UNCHANGED conversations
    /\ WebUnchanged

\* lines 389-670: the branch for current_state, to its return or to the
\* request to the agent
Resolve(t) ==
    /\ requests[t].pc = "entered"
    /\ \E r \in {Process(conversations, requests[t].conversation_id, requests[t].current_state,
                         requests[t].message, requests[t].option)} :
          /\ conversations' = r.states
          /\ requests' = [requests EXCEPT
                             ![t].pc = IF r.agent THEN "agent" ELSE "responding",
                             ![t].content = r.content]
    /\ WebUnchanged

\* lines 581-625: the agent answers or raises
AgentReturns(t) ==
    /\ requests[t].pc = "agent"
    /\ \E llm \in WebOutcomes :
          \E r \in {HooksAnswered(conversations, requests[t].conversation_id, llm)} :
              /\ conversations' = r.states
              /\ requests' = [requests EXCEPT
                                 ![t].pc = "responding",
                                 ![t].content = r.content,
                                 ![t].error = r.error]
    /\ WebUnchanged

\* lines 328-378: the response, with state['state'] as it is now
Respond(t) ==
    /\ requests[t].pc = "responding"
    /\ requests' = [requests EXCEPT
                       ![t].pc = "done",
                       ![t].shown_state = conversations[requests[t].conversation_id].state]
    /\ UNCHANGED conversations
    /\ WebUnchanged

NextWeb ==
    \E t \in Threads :
        \/ Receive(t) \/ Enter(t) \/ Resolve(t) \/ AgentReturns(t) \/ Respond(t)

SpecWeb == InitWeb /\ [][NextWeb]_vars

\* thread t has read the state of its conversation and has not responded yet
Serving(t) == requests[t].pc \in {"received", "entered", "agent", "responding"}

\* C20: the state of a conversation is never used by two requests at once: no
\* two threads are serving requests for the same conversation id at the same
\* time, each having read the state and not yet responded
C20_OneRequestPerConversation ==
    \A t1, t2 \in Threads :
        (t1 # t2 /\ Serving(t1) /\ Serving(t2))
        => requests[t1].conversation_id # requests[t2].conversation_id

-----------------------------------------------------------------------------
(* The two surfaces offered the same hooks and given the same input:        *)
(* src/main.py:476-481 and chat of src/web_app.py                            *)

\* what a user may enter to choose among the options
SurfaceInputs ==
    { "1", "2", "3", "0", "4", "-1", " 2 ", "+1", "option 1", "option 2", "option 3",
      "Option 2", "use option 3", "#1", "number 2", "first", "second", "third",
      "the second one", "two", "more_hooks", "none of them", "9", "1_0" }

\* the hooks the command line offers after a completion with three hooks
OfferedState == GenerateHooks(VideoScriptState("45 seconds"), "", ThreeHooks).state

\* the texts of the options offered
OfferedTexts ==
    [i \in 1..Len(OfferedState.hook.all_options) |-> OfferedState.hook.all_options[i].text]

InitSurfaces ==
    /\ user_input \in SurfaceInputs
    /\ state = OfferedState
    /\ db = NewProjectRows("45 seconds")
    /\ conversations = [c \in {"c1"} |-> HooksConversation(OfferedTexts)]
    /\ requests = EmptyDict
    /\ pc = "prompt"
    /\ handler = "none"
    /\ response = ""
    /\ exported = ""
    /\ turn = 0
    /\ option_selected = None
    /\ completion = ""
    /\ parsed = << >>
    /\ parser = "none"

\* main.py:476-481: the input is entered at the prompt
CliSelection ==
    /\ handler = "none"
    /\ \E n \in {_parse_option_selection(user_input)} :
          /\ option_selected' = n
          /\ IF n # None
             THEN \E r \in {_handle_option_selection(state, n)} :
                      /\ state' = r.state
                      /\ response' = r.response
                      /\ db' = save_state(db, r.state)
                      /\ handler' = "select"
             ELSE /\ handler' = "not_a_selection"
                  /\ UNCHANGED <<state, response, db>>
    /\ turn' = turn + 1
    /\ UNCHANGED <<pc, exported, user_input, completion, parsed, parser, webVars>>

\* chat, lines 283-378, serving one request alone; the agent, when asked,
\* answers with three hooks
Chat(message, option) ==
    /\ requests = EmptyDict
    /\ \E states \in {get_state(conversations, "c1")} :
       \E reply \in {Process(states, "c1", states["c1"].state, message, option)} :
       \E llm \in {ThreeHooks} :
       \E r \in {IF reply.agent THEN HooksAnswered(reply.states, "c1", llm) ELSE reply} :
          /\ conversations' = r.states
          /\ requests' = [t \in {1} |->
                             [IdleThread EXCEPT
                                 !.pc = "done", !.conversation_id = "c1",
                                 !.message = message, !.option = option,
                                 !.content = r.content, !.error = r.error,
                                 !.shown_state = r.states["c1"].state, !.served = 1]]
    /\ UNCHANGED <<cliVars, user_input, option_selected, completion, parsed, parser>>

\* the input is typed into the chat box, or sent as option_selected
WebEntry ==
    \E typed \in BOOLEAN :
        Chat(IF typed THEN user_input ELSE "", IF typed THEN "" ELSE user_input)

NextSurfaces == CliSelection \/ WebEntry

SpecSurfaces == InitSurfaces /\ [][NextSurfaces]_vars

\* the hook chosen on each surface, "" when none was
CliChosen == IF handler = "select" /\ state.hook.finalized THEN state.hook.content ELSE ""
WebChosen == conversations["c1"].selected_hook

\* C19: the same options offered and the same input entered on both surfaces,
\* the command line and the web application choose the same option, or both
\* choose none
C19_SurfacesAgree ==
    (handler # "none" /\ requests # EmptyDict) => CliChosen = WebChosen

-----------------------------------------------------------------------------
(* Properties of the selection parser and of the option parsers *)

\* C6: an input of at most 50 characters that is, after lowercasing and
\* trimming, one of "option N", "N", "use option N", "choose/select/go with
\* option N", "option number N", "number N", "#N" (alone or inside a short
\* sentence), or one of the words first/one, second/two, third/three in an
\* input of at most 20 characters, resolves to N, for N in 1..3.
C6_SelectionFormsResolve ==
    parser = "selection" /\ Len(user_input) <= 50 =>
        LET s == Strip(Lower(user_input))
        IN  \A n \in 1..3 :
               /\ (\E li \in LeadIns, f \in NumberedForms, lo \in LeadOuts :
                       s = li \o f \o At(DigitChars, n + 1) \o lo)
                      => option_selected = n
               /\ s = At(DigitChars, n + 1) => option_selected = n
               /\ (/\ Len(s) <= 20
                   /\ \E li \in {"", "the "}, w \in SelectionWords(n),
                         lo \in {"", " option", " please"} : s = li \o w \o lo)
                      => option_selected = n

C6_Witness ==
    /\ parser = "selection"
    /\ user_input = " i will go with option 3 please  "
    /\ option_selected = 3

\* C7: an input that starts with "draft:", "draft ", "enhance", "research:"
\* or "example:", or that is longer than 50 characters, is never resolved to
\* a selection, whatever selection form it contains.
C7_ExcludedNeverSelection ==
    parser = "selection" =>
        ((\/ \E p \in ExcludedPrefixes : StartsWith(Strip(Lower(user_input)), p)
          \/ Len(user_input) > 50)
            => option_selected = None)

C7_Witness ==
    /\ parser = "selection"
    /\ user_input = Filler \o "option 2"
    /\ Len(user_input) > 50
    /\ _parse_option_selection("option 2") = 2
    /\ option_selected = None

\* C9: no option parser returns more than 3 options, whatever the completion.
C9_AtMostThreeOptions ==
    parser \in {"hook", "cta", "advanced"} => Len(parsed) <= 3

\* C10: for a non-empty completion every option parser returns at least one
\* option.
C10_AtLeastOneOption ==
    parser \in {"hook", "cta", "advanced"} /\ completion # "" => Len(parsed) >= 1

-----------------------------------------------------------------------------
(* Properties of the interaction loop *)

\* C1: a turn whose completion request raised leaves the project state as
\* it was before the turn: nothing is committed to hook, story, cta,
\* story.metadata or conversation_history unless the completion arrived.
C1_RaiseLeavesStateUnchanged ==
    [][response' \in {"error", "fatal_error"} => state' = state]_vars

\* C2: a completion request that raises never ends the interaction loop:
\* whichever handler the turn was routed to, the exception is reported and
\* the loop prompts for the next input.
C2_RaiseNeverEndsLoop ==
    response \in {"error", "fatal_error"} => pc = "prompt"

\* C3: every component (hook, story, cta) that is finalized has non-empty
\* content.
C3_FinalizedHasContent ==
    \A slot \in {"hook", "story", "cta"} :
        state[slot] # NoComponent /\ state[slot].finalized => state[slot].content # ""

\* C4: selecting option 2 when the most recent options are a list of three
\* hooks sets hook.content to the text of that second hook and finalizes
\* the hook, and an export made next contains that text under "## HOOK".
C4_SecondHookRoundTrip ==
    [][LET history == state.conversation_history
           k == LastEvent(history, OptionEvents)
           three_hooks == /\ k # 0
                          /\ history[k].type = "hooks_generated"
                          /\ Len(history[k].options) = 3
       IN  /\ (handler' = "select" /\ option_selected' = 2 /\ three_hooks)
                 => /\ state'.hook.content = history[k].options[2].text
                    /\ state'.hook.finalized
           /\ (/\ handler = "select" /\ option_selected = 2
               /\ response = "hook_selected" /\ three_hooks
               /\ handler' = "export")
                 => Contains(exported',
                             JoinLines(<<"## HOOK\n", history[k].options[2].text, "\n">>))
      ]_vars

\* C5 as stated: every hook generation, initial or "more", adds its batch
\* to hook.all_options and keeps the entries that were there, in place.
C5_EveryGenerationAdds ==
    [][response' = "hook_options" =>
          LET old == Component(state, "hook").all_options
              new == state'.hook.all_options
          IN  /\ Len(new) = Len(old) + HooksPerBatch
              /\ SubSeq(new, 1, Len(old)) = old
      ]_vars

\* C5: generating more hooks appends one batch to hook.all_options and
\* keeps every earlier entry, value and position; an initial generation
\* makes hook.all_options exactly its own batch.
C5_MoreAddsInitialReplaces ==
    [][response' = "hook_options" =>
          LET old == Component(state, "hook").all_options
              new == state'.hook.all_options
          IN  IF handler' = "more"
              THEN /\ Len(new) = Len(old) + HooksPerBatch
                   /\ SubSeq(new, 1, Len(old)) = old
              ELSE Len(new) = HooksPerBatch
      ]_vars

C5_Witness ==
    /\ handler = "more"
    /\ response = "hook_options"
    /\ Len(state.hook.all_options) = 2 * HooksPerBatch
    /\ state.hook.all_options[1].text = "Why?"
    /\ state.hook.all_options[HooksPerBatch + 1].text # "Why?"

\* C8: a selection whose index exceeds the options of the most recent
\* hooks/ctas/stories_generated entry, or made when there is no such entry,
\* is answered with the "no recent options" guidance, leaves hook, story,
\* cta and conversation_history as they were, and the loop prompts again.
C8_InvalidSelectionIsHarmless ==
    [][LET history == state.conversation_history
           k == LastEvent(history, OptionEvents)
       IN  (/\ handler' = "select"
            /\ (k = 0 \/ Len(history[k].options) < option_selected'))
             => /\ response' = "no_recent_options"
                /\ state'.hook = state.hook
                /\ state'.story = state.story
                /\ state'.cta = state.cta
                /\ state'.conversation_history = state.conversation_history
                /\ pc' = "prompt"
      ]_vars

C8_Witness ==
    LET history == state.conversation_history
        k == LastEvent(history, OptionEvents)
    IN  /\ handler = "select"
        /\ option_selected = 2
        /\ response = "no_recent_options"
        /\ k # 0
        /\ Len(history[k].options) = 1
        /\ pc = "prompt"

-----------------------------------------------------------------------------
(* Properties of the parsers on well-formed blocks *)

\* C11: for a completion of three well-formed "HOOK N:" or "Option N:"
\* blocks whose scripts are non-empty, the parser of that format returns
\* exactly three options, in the order of the blocks, each with the type,
\* text, visual and duration of its block.
C11_ThreeBlocksThreeOptions ==
    \A w \in WellFormed :
        (w.text = completion /\ \A i \in 1..3 : w.blocks[i].text # "") =>
            /\ (parser = "hook" /\ w.format = "hook") => parsed = w.blocks
            /\ (parser = "metadata" /\ w.format = "option") =>
                   /\ Len(parsed) = 3
                   /\ \A i \in 1..3 :
                         /\ Get(parsed[i], "type", "") = w.blocks[i].type
                         /\ Get(parsed[i], "script", "") = w.blocks[i].text
                         /\ Get(parsed[i], "visual", "") = w.blocks[i].visual
                         /\ Get(parsed[i], "duration", "") = w.blocks[i].duration

\* the words generate_fallback_hook looks for in a lowercased type label
FallbackKeywords ==
    {"problem", "agitation", "curiosity", "statistical", "shock", "question",
     "story", "benefit"}

\* C12: a structured block with a recognized type label and an empty script
\* field is returned with a non-empty fallback sentence of the category of
\* its type label (a type containing "Curiosity" yields the curiosity
\* sentence, never the one of another category).
C12_EmptyScriptCategoryFallback ==
    \A w \in WellFormed :
        \A i \in 1..3 :
            (/\ w.text = completion
             /\ w.format = "option"
             /\ w.blocks[i].text = ""
             /\ parser \in {"metadata", "advanced"}) =>
                LET script == IF parser = "metadata"
                              THEN IF i <= Len(parsed)
                                   THEN Get(parsed[i], "script", "") ELSE ""
                              ELSE IF i <= Len(parsed) THEN parsed[i] ELSE ""
                IN  /\ script # ""
                    /\ \E k \in FallbackKeywords :
                          /\ Contains(Lower(w.blocks[i].type), k)
                          /\ script = generate_fallback_hook(k)

-----------------------------------------------------------------------------
(* Properties of the act durations *)

\* tenths of a second a shown duration "N seconds" or "N.D minutes" stands for
ShownTenths(text) ==
    LET d == SkipDigits(text, 1)
        whole == DigitsValue(Slice(text, 1, d), 0)
    IN  IF At(text, d) = "." THEN (10 * whole + DigitVal(At(text, d + 1))) * SecondsPerMinute
        ELSE 10 * whole

\* tenths of a second in 20% (acts 1 and 3) or 60% (act 2) of the average of
\* the range a total duration names
ShareTenths(total_duration, act_num) ==
    LET range == DurationRange(total_duration)
        fifths == IF act_num = 2 THEN 3 ELSE 1
        unit == IF Contains(total_duration, "second") THEN 1 ELSE SecondsPerMinute
    IN  (range.min_val + range.max_val) * fifths * unit

\* C13: the duration shown for act 1, 2, 3 is 20%, 60%, 20% of the total
\* video duration, a range "A-B" counting as the average of A and B
\* ("10 minutes" gives 2, 6, 2 minutes; "5-7 minutes" gives 1.2, 3.6, 1.2).
C13_ActShareOfTotal ==
    handler = "act_focus" =>
        ShownTenths(response) =
            ShareTenths(state.story.metadata["video_duration"],
                        state.story.metadata["current_act"])

-----------------------------------------------------------------------------
(* Properties of the way from a selected hook to act development *)

\* neither the project nor the story component has a video duration
NoDuration(st) ==
    /\ st.video_duration = ""
    /\ st.story # NoComponent => Get(st.story.metadata, "video_duration", "") = ""

AwaitingTiming(st) ==
    st.story # NoComponent /\ Get(st.story.metadata, "awaiting_timing", FALSE)

\* the last event is a hook_selected event
HookJustSelected(st) ==
    LET h == st.conversation_history
    IN  Len(h) >= 2 /\ h[Len(h)].type = "hook_selected"

\* act development has started at act 1, whose prompt names `focus`
StartsActOne(st, focus) ==
    /\ st.story # NoComponent
    /\ Get(st.story.metadata, "workflow_mode", "") = "act_development"
    /\ Get(st.story.metadata, "current_act", 0) = 1
    /\ calculate_act_duration(Get(st.story.metadata, "video_duration", ""), 1) = focus

\* C14 as stated: with no video duration set and a hook just selected, the
\* input "story" makes the duration prompt appear (awaiting_timing becomes
\* set), and the answer "45 seconds" then starts act development at act 1
\* with an act-1 duration of 9 seconds.
C14_StoryAsksTiming ==
    [][/\ (handler' = "story" /\ NoDuration(state) /\ HookJustSelected(state)
              /\ ~AwaitingTiming(state)) =>
               (response' = "ask_timing" /\ AwaitingTiming(state'))
       /\ (handler' = "timing" /\ response' \notin {"error", "fatal_error"}
              /\ state'.story.metadata["video_duration"] = "45 seconds") =>
               StartsActOne(state', "9 seconds")]_vars

\* C14: with no video duration set, no timing question pending and a hook
\* with a non-empty text just selected, the input "story" makes the mood
\* question appear (an awaiting_mood_response event is appended, awaiting_timing
\* stays unset); the answer to the mood question makes the duration prompt
\* appear (awaiting_timing becomes set); the answer "45 seconds" is stored as
\* the duration and, when the story completion is received, starts act
\* development at act 1 with an act-1 duration of 9 seconds.
C14_MoodThenTimingThenActOne ==
    [][/\ (handler' = "story" /\ NoDuration(state) /\ HookJustSelected(state)
              /\ ~AwaitingTiming(state) /\ state.hook.content # ""
              /\ (state.story # NoComponent =>
                     ~Get(state.story.metadata, "mood_handled", FALSE))) =>
               /\ response' = "ask_mood"
               /\ state'.conversation_history =
                      Append(state.conversation_history, [type |-> "awaiting_mood_response"])
               /\ ~AwaitingTiming(state')
       /\ (handler' = "mood" /\ NoDuration(state) /\ ~AwaitingTiming(state)) =>
               (response' = "ask_timing" /\ AwaitingTiming(state'))
       /\ handler' = "timing" =>
               /\ TimingPreference(state, "45 seconds") = "45 seconds"
               /\ (response' \notin {"error", "fatal_error"}
                      /\ state'.story.metadata["video_duration"] = "45 seconds") =>
                       StartsActOne(state', "9 seconds")]_vars

\* the whole way was gone: story, mood answer, "45 seconds"
C14_Witness ==
    /\ handler = "timing"
    /\ turn = 3
    /\ state.video_duration = ""
    /\ state.hook # NoComponent /\ state.hook.content # ""
    /\ \E j \in 1..Len(state.conversation_history) :
           state.conversation_history[j].type = "hook_selected"
    /\ state.story # NoComponent
    /\ Get(state.story.metadata, "video_duration", "") = "45 seconds"
    /\ Get(state.story.metadata, "mood_handled", FALSE)
    /\ StartsActOne(state, "9 seconds")

-----------------------------------------------------------------------------
(* The complete script is shown without changing anything *)

\* the response of the last turn is the complete script
ShowsScript ==
    /\ handler = "act_development"
    /\ StartsWith(response, "**" \o SCROLL \o " Your Complete Script So Far**")

\* C15: a turn that shows the complete script leaves every part of the project
\* state as it was (current_act and acts_content included), and when the turn
\* before it showed the script too, the output is the same
C15_ShowScriptIdempotent ==
    [][ShowsScript' =>
          /\ state' = state
          /\ ShowsScript => response' = response]_vars

\* the script is shown with a draft of act 1 in it
C15_Witness ==
    /\ ShowsScript
    /\ response = FullScript(state)
    /\ Get(state.story.metadata["acts_content"], "act_1", "") # ""
    /\ Contains(response, "**Act 1 (9 seconds):**")

-----------------------------------------------------------------------------
(* The conversation history as a log *)

\* the events of the history, as they would be written down
HistoryLog == Serialised(state.conversation_history)

\* C16: conversation_history is append-only: every event once in it stays
\* at the same position with the same content, a turn only adds at the end
C16_HistoryAppendOnly ==
    [][/\ Len(HistoryLog') >= Len(HistoryLog)
       /\ SubSeq(HistoryLog', 1, Len(HistoryLog)) = HistoryLog]_vars

-----------------------------------------------------------------------------
(* What the store holds when the next input is asked for *)

\* the project a load of the rows gives, the save counters left aside
StoredProject(rows) ==
    LET Counted(component) ==
            IF component = NoComponent THEN component
            ELSE [component EXCEPT !.iterations = 0]
    IN  [load_project_state(rows) EXCEPT
            !.hook = Counted(@), !.story = Counted(@), !.cta = Counted(@)]

\* the turn just completed was resolved without an error
TurnResolved ==
    /\ pc = "prompt"
    /\ turn > 0
    /\ response \notin {"error", "fatal_error"}

\* C17: whenever the next input is asked for after a successfully resolved
\* turn, the stored project reflects the state in memory: saving that state
\* now would not change the project that is stored
C17_PersistedAfterEveryTurn ==
    TurnResolved => StoredProject(db) = StoredProject(save_state(db, state))

-----------------------------------------------------------------------------
(* `use enhanced` with nothing staged *)

\* no enhanced draft is staged in st
NothingStaged(st) == Get(st.story.metadata, "enhanced_draft", "") = ""

\* the last turn was answered with the message of lines 185-190
EnhancedRefused ==
    /\ handler = "act_development"
    /\ StartsWith(response, CROSS_MARK \o " **No enhanced version available.**")

\* C18: at every prompt where `use enhanced` goes to act development and no
\* enhanced draft is staged, the answer is the explicit message that no
\* enhanced version is available, whatever a completion would return, and
\* story.metadata (acts_content, current_act, enhanced_draft) stays as it is
C18_UseEnhancedRefused ==
    (pc = "prompt" /\ Route(state, "use enhanced") = "act_development" /\ NothingStaged(state))
    => \A llm \in FreeOutcomes :
           LET Answered(r) ==
                   /\ ~r.raised
                   /\ StartsWith(r.response, CROSS_MARK \o " **No enhanced version available.**")
                   /\ r.state.story.metadata = state.story.metadata
           IN  Answered(process_act_development(state, "use enhanced", llm))

\* `use enhanced` was refused in a project with a draft of act 1 and nothing
\* staged
C18_Witness ==
    /\ EnhancedRefused
    /\ NothingStaged(state)
    /\ Get(state.story.metadata["acts_content"], "act_1", "") # ""

-----------------------------------------------------------------------------
(* Isolation of the conversations of the web application *)

\* thread t takes the step
Acts(t) == requests'[t] # requests[t]

\* the entry of conversation c alone
Alone(c) == [d \in {c} |-> conversations[c]]

\* C21: a step of a request for one conversation leaves the entry of every
\* other conversation as it was, and what it does to its own entry is what it
\* would do were the other entries absent
C21_ConversationsIsolated ==
    [][\A t \in Threads :
          Acts(t) =>
              /\ \A c \in DOMAIN conversations :
                     c # requests'[t].conversation_id
                     => c \in DOMAIN conversations' /\ conversations'[c] = conversations[c]
              /\ requests[t].pc = "entered"
                 => conversations'[requests[t].conversation_id]
                    = Process(Alone(requests[t].conversation_id), requests[t].conversation_id,
                              requests[t].current_state, requests[t].message,
                              requests[t].option).states[requests[t].conversation_id]]_vars

\* both conversations have been served, and the entry of each was changed by
\* its own request
C21_Witness ==
    /\ DOMAIN conversations = ConversationIds
    /\ \E t1, t2 \in Threads :
          /\ requests[t1].pc = "done" /\ requests[t1].conversation_id = "c1"
          /\ requests[t2].pc = "done" /\ requests[t2].conversation_id = "c2"
    /\ conversations["c1"].state = "hooks_generated"
    /\ conversations["c1"].hook_generation_count > 0
    /\ conversations["c2"] # NewConversation

-----------------------------------------------------------------------------
(* The act sub-workflow: `next act`, the end of the workflow, the staged     *)
(* rewrite and the advice commands                                           *)

\* the input goes to act development at this prompt
Delegated(input) == pc = "prompt" /\ Route(state, input) = "act_development"

CurrentAct(st) == Get(st.story.metadata, "current_act", 1)

\* C22: at a prompt of act development, `next act` in act 1 or 2 raises
\* current_act by one and does not finalize; in act 3 it sets story.finalized
\* and leaves in story.content the script assembled from the three
\* acts_content entries
C22_NextActAdvancesThenCompletes ==
    Delegated("next act")
    => \A llm \in DevOutcomes :
           LET Moved(r) ==
                   IF CurrentAct(state) < 3
                   THEN /\ CurrentAct(r.state) = CurrentAct(state) + 1
                        /\ ~r.state.story.finalized
                   ELSE /\ r.state.story.finalized
                        /\ r.state.story.content = final_script(state)
           IN  Moved(process_act_development(state, "next act", llm))

\* C23: once `next act` has completed the workflow (story.finalized is set),
\* a free text entered at the prompt is not delegated to act development
C23_CompleteEndsInterception ==
    (pc = "prompt" /\ state.story.finalized)
    => Route(state, "Sleep is a skill") # "act_development"

\* C24: at a prompt of act development with nothing staged, `keep original`
\* is answered without an exception, leaves acts_content as it is, and the
\* draft of the current act is not the text "keep original"
C24_KeepOriginalRefused ==
    (Delegated("keep original") /\ NothingStaged(state))
    => \A llm \in DevOutcomes :
           LET Refused(r) ==
                   /\ ~r.raised
                   /\ r.state.story.metadata["acts_content"]
                      = state.story.metadata["acts_content"]
                   /\ ActDraft(r.state, CurrentAct(state)) # "keep original"
           IN  Refused(process_act_development(state, "keep original", llm))

\* what the enhancement commands do at a prompt of act development; a staged
\* text that is blank is written by `use enhanced` when blank_written, and is
\* refused and stays staged otherwise
EnhancementStaged(blank_written) ==
    LET meta == state.story.metadata
        act == CurrentAct(state)
        staged == Get(meta, "enhanced_draft", "")
        Written == Del([meta EXCEPT !.acts_content = Put(@, ActKey(act), staged)],
                       "enhanced_draft")
        Enhanced(r, llm) ==
            IF ActDraft(state, act) = "" THEN r.state.story.metadata = meta
            ELSE IF llm = RAISE THEN r.raised /\ r.state = state
            ELSE r.state.story.metadata = Put(meta, "enhanced_draft", llm)
        Used(r) ==
            IF Strip(staged) # "" \/ blank_written
            THEN r.state.story.metadata = Written
            ELSE r.response = "empty_enhanced_draft" /\ r.state.story.metadata = meta
        Kept(r) == r.state.story.metadata = Del(meta, "enhanced_draft")
        Other(r) == ActDraft(state, act) # staged => ActDraft(r.state, act) # staged
    IN  \A llm \in DevOutcomes :
            /\ Delegated("enhance") => Enhanced(process_act_development(state, "enhance", llm), llm)
            /\ staged # ""
               => /\ Delegated("use enhanced")
                     => Used(process_act_development(state, "use enhanced", llm))
                  /\ Delegated("keep original")
                     => Kept(process_act_development(state, "keep original", llm))
                  /\ \A input \in DevInputs \ {"use enhanced"} :
                         Delegated(input) => Other(process_act_development(state, input, llm))

\* C25 as stated: `enhance` without a draft stages nothing; with a draft the
\* rewrite is staged and acts_content stays; `use enhanced` writes the staged
\* text into the current act, `keep original` discards it, both clear
\* enhanced_draft, and no other input writes the staged text
C25_StagedThenResolved == EnhancementStaged(TRUE)

\* C25: the same, but a staged text that is blank is refused by `use
\* enhanced` with the message of lines 199-204 and stays staged
C25_StagedThenResolvedUnlessBlank == EnhancementStaged(FALSE)

\* `use enhanced` has put the staged rewrite in the place of the draft of act 1
C25_Witness ==
    /\ handler = "act_development"
    /\ response = "draft_replaced"
    /\ ActDraft(state, 1) = "Looks good"
    /\ "enhanced_draft" \notin DOMAIN state.story.metadata

AdviceCommands == {"research: naps", "give me example"}

\* C26: at a prompt of act development, `research: <topic>` and the example
\* requests read one completion and show it, and leave story.metadata
\* (acts_content, current_act, enhanced_draft) as it is
C26_AdviceLeavesDraft ==
    \A input \in AdviceCommands, llm \in DevOutcomes :
        Delegated(input)
        => LET Advised(r) ==
                   /\ r.state.story.metadata = state.story.metadata
                   /\ IF llm = RAISE THEN r.raised
                      ELSE r.response \in {"research", "examples"} /\ r.completion = llm
           IN  Advised(process_act_development(state, input, llm))

\* an advice was shown while a draft of act 1 was stored and a rewrite staged
C26_Witness ==
    /\ handler = "act_development"
    /\ response \in {"research", "examples"}
    /\ ActDraft(state, 1) # ""
    /\ ~NothingStaged(state)

-----------------------------------------------------------------------------
(* The events of selections and generations, bare custom keywords and the    *)
(* answer to the mood question                                               *)

LastType(history) == IF history = << >> THEN "none" ELSE history[Len(history)].type

\* C27: a turn that selects an option for the hook, the CTA or the story
\* (the component's content and finalized flag are set) ends with the event
\* hook_selected, cta_selected or story_selected appended to the history
C27_SelectionLogged ==
    [][(handler' = "select"
        /\ response' \in {"hook_selected", "cta_selected", "story_selected"})
       => /\ Len(state'.conversation_history) = Len(state.conversation_history) + 1
          /\ LastType(state'.conversation_history) = response']_vars

\* the replies of a generator that returned: hook_specialist.py:69-206,
\* cta_strategist.py:112-450, story_architect.py:91-280
GeneratorReplies ==
    [hook_options |-> "hooks_generated",
     cta_options |-> "ctas_generated", cta_optimized |-> "ctas_generated",
     cta_urgency |-> "ctas_generated", cta_variants |-> "ctas_generated",
     cta_improved |-> "ctas_generated",
     story_structure |-> "stories_generated", story_adapted |-> "stories_generated",
     story_enhanced |-> "stories_generated"]

\* the history without the awaiting_mood_response that _generate_story pops
WithoutMarker(history) ==
    IF LastType(history) = "awaiting_mood_response"
    THEN SubSeq(history, 1, Len(history) - 1) ELSE history

\* C28: a turn in which a generator returned (hooks, more hooks, CTAs, a CTA
\* follow-up or regeneration, a story or its regeneration) appends the event
\* hooks_generated, ctas_generated or stories_generated, and the event of the
\* hooks carries all options accumulated so far
C28_GenerationLogged ==
    [][response' \in DOMAIN GeneratorReplies
       => /\ Len(state'.conversation_history)
             = Len(IF GeneratorReplies[response'] = "stories_generated"
                   THEN WithoutMarker(state.conversation_history)
                   ELSE state.conversation_history) + 1
          /\ LastType(state'.conversation_history) = GeneratorReplies[response']
          /\ response' = "hook_options"
             => state'.conversation_history[Len(state'.conversation_history)].options
                = state'.hook.all_options]_vars

\* C29: at a prompt where a bare keyword goes to _handle_custom_content, the
\* reply asks for the content and the content and the finalized flag of the
\* hook, the story and the CTA stay as they are
C29_BareKeywordPrompts ==
    \A keyword \in BareKeywords :
        (pc = "prompt" /\ Route(state, keyword) = "custom")
        => LET Asked(r) ==
                   /\ r.response \in {"custom_usage", "generate_first"}
                   /\ \A slot \in {"hook", "story", "cta"} :
                          /\ Component(r.state, slot).content = Component(state, slot).content
                          /\ Component(r.state, slot).finalized
                             = Component(state, slot).finalized
           IN  Asked(_handle_custom_content(state, keyword))

GlobalCommands == {"exit", "help", "status", "save", "export", "list"}

\* C30: at a prompt where the last event is awaiting_mood_response, every
\* input that is no global session command is the mood answer: it takes the
\* branch of lines 458-462, and _generate_story leaves no
\* awaiting_mood_response in the history
C30_MoodAnswerTaken ==
    (pc = "prompt" /\ LastType(state.conversation_history) = "awaiting_mood_response")
    => \A input \in Inputs :
           LowerOf[input] \notin GlobalCommands
           => /\ Route(state, input) = "mood"
              /\ \A llm \in StoryOutcomes :
                     LET Consumed(r) ==
                             \A i \in 1..Len(r.state.conversation_history) :
                                 r.state.conversation_history[i].type
                                 # "awaiting_mood_response"
                     IN  Consumed(_generate_story(state, input, FALSE, llm))

-----------------------------------------------------------------------------
(* The act sub-workflow ahead of the later branches of the loop *)

\* story.metadata.workflow_mode is 'act_development'
ActMode(st) ==
    /\ st.story # NoComponent
    /\ Get(st.story.metadata, "workflow_mode", "") = "act_development"

\* a question of lines 458-473 waits for its answer
QuestionPending(st) ==
    \/ /\ st.conversation_history # << >>
       /\ st.conversation_history[Len(st.conversation_history)].type
              = "awaiting_mood_response"
    \/ /\ st.story # NoComponent
       /\ Get(st.story.metadata, "awaiting_timing", FALSE)

-----------------------------------------------------------------------------
(* The act counter *)

\* C32: whenever the act workflow is active, story.metadata.current_act is
\* 1, 2 or 3; 'next act' never moves it past 3.
C32_CurrentActInRange ==
    ActMode(state) =>
        /\ "current_act" \in DOMAIN state.story.metadata
        /\ state.story.metadata["current_act"] \in 1..3
        /\ \A llm \in DevOutcomes :
               CurrentAct(process_act_development(state, "next act", llm).state) \in 1..3

\* 'next act' was entered on the third act: the script is complete and the
\* counter stays at 3
C32_Witness ==
    /\ handler = "act_development"
    /\ response = "script_complete"
    /\ CurrentAct(state) = 3

-----------------------------------------------------------------------------
(* The numbers offered with the hooks *)

\* C33: after hook generation, also after 'more' has accumulated more than
\* three options, every number from 1 to the number of options shown is
\* read as a selection and selects the option displayed under it.
C33_EveryShownNumberSelects ==
    ( /\ pc = "prompt"
      /\ handler \in {"hooks", "more"}
      /\ response = "hook_options"
      /\ ~QuestionPending(state) ) =>
        \A n \in 1..Len(state.hook.all_options) :
            ToString(n) \in AllInputs =>
                /\ Route(state, ToString(n)) = "select"
                /\ SelectionOf[ToString(n)] = n
                /\ _handle_option_selection(state, n).state.hook.content
                       = state.hook.all_options[n].text

-----------------------------------------------------------------------------
(* The staged enhancement and the draft it was made from *)

\* story.metadata['enhanced_draft'], '' when nothing is staged
Staged(st) == Get(st.story.metadata, "enhanced_draft", "")

\* C34: a staged enhanced draft is applied only to the act and the draft it
\* was generated from: once current_act has advanced, or the draft of the act
\* was replaced by a new submission, 'use enhanced' does not write the stale
\* staged text over the new act's or the new draft's content.
C34_StaleEnhancementNotApplied ==
    [][ ( /\ Strip(Staged(state)) # ""
          /\ handler' = "act_development"
          /\ response' # "draft_replaced"
          /\ \/ CurrentAct(state') # CurrentAct(state)
             \/ ActDraft(state', CurrentAct(state)) # ActDraft(state, CurrentAct(state)) )
        => ActDraft(process_act_development(state', "use enhanced", "").state,
                    CurrentAct(state')) # Staged(state) ]_vars

-----------------------------------------------------------------------------
(* The drafts of the acts under the commands of the loop *)

\* C35: while act development is active no input accepted by the loop
\* (including 'story', 'narrative' and 'structure') empties acts_content or
\* sets current_act back: an act that has a draft keeps one, replaced at most
\* by a new draft.
C35_DraftsKept ==
    [][ ActMode(state) =>
           /\ state'.story # NoComponent
           /\ \A n \in 1..3 : ActDraft(state, n) # "" => ActDraft(state', n) # ""
           /\ CurrentAct(state') >= CurrentAct(state) ]_vars

-----------------------------------------------------------------------------
(* Finalized content under the generation commands *)

\* the branches of the loop behind 'hook', 'story', 'cta' and 'more'
GenerationCommands == {"hooks", "story", "cta", "more"}

\* C36: re-issuing a generation command ('hook', 'story', 'cta' or 'more')
\* leaves the content of every finalized component unchanged.
C36_GenerationKeepsFinalized ==
    [][ handler' \in GenerationCommands =>
           \A slot \in {"hook", "story", "cta"} :
               (state[slot] # NoComponent /\ state[slot].finalized) =>
                   /\ state'[slot] # NoComponent
                   /\ state'[slot].content = state[slot].content ]_vars

-----------------------------------------------------------------------------
(* The acts behind a completed script *)

\* C37: 'next act' does not advance past, or complete on, an act without a
\* stored draft: after it advanced every earlier act has content, and when
\* the act workflow has marked the story finalized all three acts have.
C37_CompleteHasAllActs ==
    ( /\ pc = "prompt"
      /\ handler = "act_development"
      /\ response \in {"next_act", "script_complete"} ) =>
        /\ \A n \in 1..(CurrentAct(state) - 1) : ActDraft(state, n) # ""
        /\ response = "script_complete" =>
               /\ state.story.finalized
               /\ \A n \in 1..3 : ActDraft(state, n) # ""

-----------------------------------------------------------------------------
(* The conversation after a failed hook generation *)

\* the answer to 'hooks' in the conversation: hooks are requested from the
\* agent or generated from the templates
HooksObtainable(states, conversation_id) ==
    LET r == Process(states, conversation_id, states[conversation_id].state, "hooks", "")
    IN  r.agent \/ r.content = "template_hooks"

\* C38: after a hook generation attempt failed because the agent raised, the
\* conversation does not remain in GENERATING_HOOKS: answering 'hooks'
\* generates hooks again.
C38_FailedGenerationRecovers ==
    [][ \A t \in Threads :
           ( /\ requests[t].pc = "agent"
             /\ requests'[t].pc = "responding"
             /\ requests'[t].error ) =>
               /\ conversations'[requests[t].conversation_id].state # "generating_hooks"
               /\ HooksObtainable(conversations', requests[t].conversation_id) ]_vars

-----------------------------------------------------------------------------
(* Saving a project and loading it back *)

\* the keys of story.metadata the act workflow uses
WorkflowKeys == {"workflow_mode", "current_act", "acts_content", "enhanced_draft"}

\* the fields of a component that a project is made of
SameComponent(a, b) ==
    /\ b # NoComponent
    /\ b.content = a.content
    /\ b.finalized = a.finalized
    /\ b.iterations = a.iterations
    /\ b.feedback_history = a.feedback_history
    /\ b.all_options = a.all_options

\* C39: saving the state and loading it back yields the same project: every
\* component that existed, also a hook with options and empty content, comes
\* back with the same content, finalized flag, iterations, feedback history
\* and all_options, the act-workflow fields of story.metadata are restored
\* and conversation_history is the same.
C39_SaveLoadRoundTrip ==
    (pc = "prompt" /\ turn > 0) =>
        LET loaded == load_project_state(save_state(db, state))
        IN  /\ \A slot \in {"hook", "story", "cta"} :
                   state[slot] # NoComponent => SameComponent(state[slot], loaded[slot])
            /\ state.story # NoComponent =>
                   \A k \in WorkflowKeys \cap DOMAIN state.story.metadata :
                       /\ k \in DOMAIN loaded.story.metadata
                       /\ loaded.story.metadata[k] = state.story.metadata[k]
            /\ loaded.conversation_history = Serialised(state.conversation_history)

====
